---- MODULE Spec2Model ----
(***************************************************************************)
(* The incremental document model of sidecar:                              *)
(*   sidecar/src/inline_completion/document/content.rs                     *)
(* A DocumentEditLines buffer is a sequence of DocumentLine records.  A    *)
(* Rust String is modelled as its UTF-8 bytes; line contents are decoded   *)
(* to code points (chars()) and encoded back (collect::<String>()) where   *)
(* the code does so.  A panic (index out of bounds, slice out of range,    *)
(* unwrap on None) is the result "panic" of the call.                      *)
(***************************************************************************)
EXTENDS Integers, Sequences, FiniteSets, TLC

VARIABLES
    lines,            \* DocumentEditLines.lines
    window_snippets,  \* DocumentEditLines.window_snippets
    call,             \* the last call made on the buffer and how it ended
    before,           \* lines when that call started
    mid,              \* lines after the removal phase of that call
    applied           \* a function of the chunking or snippet code applied to
                      \* an input: its name, the input and what it returned

vars == <<lines, window_snippets, call, before, mid, applied>>

\* Longest document (in code points) the model explores.
MaxDoc == 3
\* Largest line and column index an edit event may name.
MaxPos == 2

\* "\n", the separator of get_content.
NL == 10
\* Maximum snippet size of the sliding window.
WindowSize == 50

\* The code points documents are made of: 'a', U+1FAE1 (4 bytes in UTF-8)
\* and the line break.
Alphabet == {97, 129761, NL}

Min(a, b) == IF a < b THEN a ELSE b

(***************************************************************************)
(* Rust strings: UTF-8 bytes <-> code points                               *)
(***************************************************************************)

\* char::encode_utf8, as used by collect::<String>()
encode_utf8(c) ==
    IF c < 128 THEN <<c>>
    ELSE IF c < 2048 THEN <<192 + (c \div 64), 128 + (c % 64)>>
    ELSE IF c < 65536
         THEN <<224 + (c \div 4096), 128 + ((c \div 64) % 64), 128 + (c % 64)>>
    ELSE <<240 + (c \div 262144), 128 + ((c \div 4096) % 64),
           128 + ((c \div 64) % 64), 128 + (c % 64)>>

\* Number of bytes of the character that starts with byte b.
utf8_char_width(b) ==
    IF b < 128 THEN 1 ELSE IF b < 224 THEN 2 ELSE IF b < 240 THEN 3 ELSE 4

\* The code point held by the bytes bs of one character.
decode_utf8(bs) ==
    IF Len(bs) = 1 THEN bs[1]
    ELSE IF Len(bs) = 2 THEN (bs[1] % 32) * 64 + (bs[2] % 64)
    ELSE IF Len(bs) = 3
         THEN (bs[1] % 16) * 4096 + (bs[2] % 64) * 64 + (bs[3] % 64)
    ELSE (bs[1] % 8) * 262144 + (bs[2] % 64) * 4096 + (bs[3] % 64) * 64
         + (bs[4] % 64)

RECURSIVE chars(_)
\* str::chars().collect::<Vec<char>>()
chars(s) ==
    IF s = <<>> THEN <<>>
    ELSE LET w == Min(utf8_char_width(s[1]), Len(s))
         IN  <<decode_utf8(SubSeq(s, 1, w))>> \o chars(SubSeq(s, w + 1, Len(s)))

RECURSIVE collect_String(_)
\* Iterator<char>::collect::<String>()
collect_String(cs) ==
    IF cs = <<>> THEN <<>>
    ELSE encode_utf8(cs[1]) \o collect_String(Tail(cs))

RECURSIVE join(_, _)
\* [String]::join(sep)
join(strs, sep) ==
    IF strs = <<>> THEN <<>>
    ELSE IF Len(strs) = 1 THEN strs[1]
    ELSE strs[1] \o sep \o join(Tail(strs), sep)

RECURSIVE split_on_lines_editor_compatiable(_)
\* Splits at every line break; a string without line break is one line.
split_on_lines_editor_compatiable(s) ==
    IF \A i \in 1..Len(s) : s[i] # NL THEN <<s>>
    ELSE LET i == CHOOSE k \in 1..Len(s) :
                      s[k] = NL /\ \A j \in 1..(k - 1) : s[j] # NL
         IN  <<SubSeq(s, 1, i - 1)>>
             \o split_on_lines_editor_compatiable(SubSeq(s, i + 1, Len(s)))

\* Vec::drain(from..to): the vector without the elements at from..to-1 (0-based)
drain(v, from, to) == SubSeq(v, 1, from) \o SubSeq(v, to + 1, Len(v))

(***************************************************************************)
(* Position and Range (chunking::text_document)                            *)
(***************************************************************************)

Position_new(line, column) == [line |-> line, column |-> column]
Range_new(start_position, end_position) ==
    [start |-> start_position, end |-> end_position]
start_position(range) == range.start
start_line(range) == range.start.line
start_column(range) == range.start.column
end_line(range) == range.end.line
end_column(range) == range.end.column

(***************************************************************************)
(* DocumentEditLines                                                       *)
(***************************************************************************)

DocumentLine(status, content) == [line_status |-> status, content |-> content]

Ok(ls) == [lines |-> ls, result |-> "ok"]
Panic(ls) == [lines |-> ls, result |-> "panic"]

\* DocumentEditLines::new: the lines field
DocumentEditLines_new(content) ==
    IF content = <<>>
    THEN <<DocumentLine("Unedited", <<>>)>>
    ELSE LET split == split_on_lines_editor_compatiable(content)
         IN  [i \in 1..Len(split) |-> DocumentLine("Unedited", split[i])]

\* get_content as if every line were written with a closing line break
get_content_trailing_newline(ls) ==
    join([i \in 1..Len(ls) |-> ls[i].content \o <<NL>>], <<>>)

\* DocumentEditLines::get_content
get_content(ls) == join([i \in 1..Len(ls) |-> ls[i].content], <<NL>>)

\* the end column as if it were not moved back by one
single_line_end_column_inclusive(range) == end_column(range)

\* remove_range, same line: the end column as adjusted before draining
single_line_end_column(range) ==
    IF end_column(range) # 0 THEN end_column(range) - 1 ELSE end_column(range)

\* remove_range, same line, start_column # end_column: drain the columns
drain_columns(ls, range) ==
    IF start_line(range) >= Len(ls) THEN Panic(ls)   \* get_mut(..).unwrap()
    ELSE LET line == ls[start_line(range) + 1]
             characters == chars(line.content)
             start_index == start_column(range)
             end_index == single_line_end_column(range)
         IN  IF start_index > end_index + 1 \/ end_index + 1 > Len(characters)
             THEN Panic(ls)                           \* Vec::drain out of range
             ELSE Ok([ls EXCEPT ![start_line(range) + 1].content =
                        collect_String(drain(characters, start_index, end_index + 1))])

\* remove_range on one line as if it did not return early on equal columns
remove_same_line_unguarded(ls, range) == drain_columns(ls, range)

\* remove_range, start_line == end_line
remove_same_line(ls, range) ==
    IF start_column(range) = end_column(range) THEN Ok(ls)
    ELSE drain_columns(ls, range)

\* the prefix as if the start line were cut by bytes() instead of chars()
start_line_prefix_bytes(ls, range) ==
    SubSeq(ls[start_line(range) + 1].content, 1, start_column(range))

\* remove_range, cross-line: the prefix kept of the start line (code points)
start_line_prefix(ls, range) ==
    SubSeq(chars(ls[start_line(range) + 1].content), 1, start_column(range))

\* the suffix as if it began one code point after the end column
end_line_suffix_after_column(ls, range) ==
    LET end_line_characters == chars(ls[end_line(range) + 1].content)
    IN  SubSeq(end_line_characters, end_column(range) + 2, Len(end_line_characters))

\* remove_range, cross-line: the suffix kept of the end line (code points)
end_line_suffix(ls, range) ==
    LET end_line_characters == chars(ls[end_line(range) + 1].content)
    IN  SubSeq(end_line_characters, end_column(range) + 1, Len(end_line_characters))

\* the merged start line as if the removal marked it Edited
merged_start_line_edited(start_doc_line, prefix, suffix) ==
    DocumentLine("Edited", collect_String(prefix) \o collect_String(suffix))

\* remove_range, cross-line: the start line after merging prefix and suffix
merged_start_line(start_doc_line, prefix, suffix) ==
    [start_doc_line EXCEPT !.content = collect_String(prefix) \o collect_String(suffix)]

\* the bounds of the drain as if it began at the start line
drained_lines_from_start_line(range) ==
    [from |-> start_line(range), to |-> end_line(range) + 1]

\* remove_range, cross-line: the bounds of self.lines.drain(..)
drained_lines(range) == [from |-> start_line(range) + 1, to |-> end_line(range) + 1]

\* remove_range, start_line != end_line
remove_cross_line(ls, range) ==
    IF start_line(range) >= Len(ls) THEN Panic(ls)       \* self.lines[start_line]
    ELSE IF start_column(range) > Len(chars(ls[start_line(range) + 1].content))
    THEN Panic(ls)                                       \* [..start_column]
    ELSE IF end_line(range) >= Len(ls) THEN Panic(ls)    \* self.lines[end_line]
    ELSE IF end_column(range) > Len(chars(ls[end_line(range) + 1].content))
    THEN Panic(ls)                                       \* [end_column..]
    ELSE LET merged == [ls EXCEPT ![start_line(range) + 1] =
                          merged_start_line(ls[start_line(range) + 1],
                                            start_line_prefix(ls, range),
                                            end_line_suffix(ls, range))]
             d == drained_lines(range)
         IN  IF d.from > d.to \/ d.to > Len(merged)
             THEN Panic(merged)          \* drain panics after the start line changed
             ELSE Ok(drain(merged, d.from, d.to))

\* DocumentEditLines::remove_range
remove_range(ls, range) ==
    IF start_line(range) = end_line(range)
    THEN remove_same_line(ls, range)
    ELSE remove_cross_line(ls, range)

\* insert_at_position: the DocumentLines built from prefix + content + suffix
new_lines(new_content) ==
    LET split == split_on_lines_editor_compatiable(new_content)
    IN  [i \in 1..Len(split) |-> DocumentLine("Edited", split[i])]

\* insert_at_position as if the line at the position were not removed before
\* the new lines are spliced in
insert_at_position_keeps_line(ls, position, content) ==
    IF content = <<>> THEN Ok(ls)
    ELSE IF position.line >= Len(ls) THEN Panic(ls)
    ELSE LET characters == chars(ls[position.line + 1].content)
         IN  IF position.column > Len(characters) THEN Panic(ls)
             ELSE LET prefix == collect_String(SubSeq(characters, 1, position.column))
                      suffix == collect_String(
                          SubSeq(characters, position.column + 1, Len(characters)))
                  IN  Ok(SubSeq(ls, 1, position.line)
                         \o new_lines(prefix \o content \o suffix)
                         \o SubSeq(ls, position.line + 1, Len(ls)))

\* DocumentEditLines::insert_at_position
insert_at_position(ls, position, content) ==
    IF content = <<>> THEN Ok(ls)
    ELSE IF position.line >= Len(ls) THEN Panic(ls)      \* self.lines[line]
    ELSE LET characters == chars(ls[position.line + 1].content)
         IN  IF position.column > Len(characters) THEN Panic(ls)
             ELSE LET prefix == collect_String(SubSeq(characters, 1, position.column))
                      suffix == collect_String(
                          SubSeq(characters, position.column + 1, Len(characters)))
                      new_content == prefix \o content \o suffix
                  IN  Ok(SubSeq(ls, 1, position.line)
                         \o new_lines(new_content)
                         \o SubSeq(ls, position.line + 2, Len(ls)))

\* sliding windows whose start_line and end_line count from 0
snippets_numbered_from_zero(ls) ==
    IF Len(ls) <= WindowSize
    THEN <<[snippet_lines |-> ls, start_line |-> 1, end_line |-> Len(ls)]>>
    ELSE [k \in 1..(Len(ls) - WindowSize) |->
            [snippet_lines |-> SubSeq(ls, k, k + WindowSize - 1),
             start_line |-> k - 1, end_line |-> k + WindowSize - 2]]

\* snippets_using_sliding_window: the snippet (lines, start_line, end_line)
\* of each BagOfWords it stores in window_snippets
snippets_using_sliding_window(ls) ==
    IF Len(ls) <= WindowSize
    THEN <<[snippet_lines |-> ls, start_line |-> 1, end_line |-> Len(ls)]>>
    ELSE [k \in 1..(Len(ls) - WindowSize) |->
            [snippet_lines |-> SubSeq(ls, k, k + WindowSize - 1),
             start_line |-> k, end_line |-> k + WindowSize - 1]]

\* generate_snippets: the import lines left out, given the line ranges the
\* parser reports for imports and for functions
exlcuded_lines_import(import_ranges, function_ranges) ==
    {i \in 0..MaxDoc : /\ \E r \in import_ranges : r[1] <= i /\ i <= r[2]
                       /\ ~ \E r \in function_ranges : r[1] <= i /\ i <= r[2]}

RECURSIVE filtered_lines(_, _, _)
\* generate_snippets: the contents of the lines from index i on that are not excluded
filtered_lines(ls, excluded, i) ==
    IF i >= Len(ls) THEN <<>>
    ELSE (IF i \in excluded THEN <<>> ELSE <<ls[i + 1].content>>)
         \o filtered_lines(ls, excluded, i + 1)

\* generate_snippets: window_snippets when it returns.  The filtered lines
\* are computed and dropped: the call of snippets_using_sliding_window is
\* commented out, so nothing is assigned.
generate_snippets(ls, snippets) == snippets

\* content_change as if it inserted at the end of the range
content_change_at_end(ls, range, new_content) ==
    LET removed == remove_range(ls, range)
    IN  IF removed.result = "panic" THEN removed
        ELSE insert_at_position(removed.lines, range.end, new_content)

\* DocumentEditLines::content_change: remove the range, insert at its start
content_change(ls, range, new_content) ==
    LET removed == remove_range(ls, range)
    IN  IF removed.result = "panic" THEN removed
        ELSE insert_at_position(removed.lines, start_position(range), new_content)

(***************************************************************************)
(* The state machine: a buffer is opened, then edited                      *)
(***************************************************************************)

RECURSIVE SeqsUpTo(_, _)
SeqsUpTo(S, n) ==
    IF n = 0 THEN {<<>>}
    ELSE SeqsUpTo(S, n - 1)
         \cup {Append(s, x) : s \in {t \in SeqsUpTo(S, n - 1) : Len(t) = n - 1}, x \in S}

\* Initial contents: every string of at most MaxDoc code points.
Contents == {collect_String(cs) : cs \in SeqsUpTo(Alphabet, MaxDoc)}

\* The texts an edit event inserts: "", "a", "\n", U+1FAE1 "\n".
Texts == {collect_String(cs) : cs \in {<<>>, <<97>>, <<NL>>, <<129761, NL>>}}

Positions == {Position_new(l, c) : l \in 0..MaxPos, c \in 0..MaxPos}
Ranges == {Range_new(s, e) : s \in Positions, e \in Positions}

\* What the parser may report as [imports, functions] line ranges: nothing
\* (no language configuration or no tree), line 0 as an import, or line 0 as
\* an import inside a function.
Parses == {<<{}, {}>>, <<{<<0, 0>>}, {}>>, <<{<<0, 0>>}, {<<0, 0>>}>>}

NoRange == Range_new(Position_new(0, 0), Position_new(0, 0))
\* No function is being applied.
NotApplied == [op |-> "none", fn |-> "none", input |-> <<>>, output |-> <<>>]
Idle == [kind |-> "idle", range |-> NoRange, text |-> <<>>, result |-> "ok"]

DocLen(ls) == Len(chars(get_content(ls)))

Init ==
    \E content \in Contents :
        /\ lines = DocumentEditLines_new(content)
        /\ window_snippets = <<>>
        /\ call = [kind |-> "new", range |-> NoRange, text |-> content, result |-> "ok"]
        /\ before = <<>>
        /\ mid = <<>>
        /\ applied = NotApplied

\* An editor edit event: content_change(range, new_content)
ContentChange ==
    /\ call.kind = "idle"
    /\ \E range \in Ranges, new_content \in Texts :
        LET r == content_change(lines, range, new_content)
        IN  /\ DocLen(r.lines) <= MaxDoc
            /\ lines' = r.lines
            /\ before' = lines
            /\ mid' = remove_range(lines, range).lines
            /\ call' = [kind |-> "content_change", range |-> range,
                        text |-> new_content, result |-> r.result]
            /\ window_snippets' = IF r.result = "ok"
                                  THEN generate_snippets(r.lines, window_snippets)
                                  ELSE window_snippets
            /\ UNCHANGED applied

\* remove_range called on its own, as the module's tests do
RemoveRange ==
    /\ call.kind = "idle"
    /\ \E range \in Ranges :
        LET r == remove_range(lines, range)
        IN  /\ DocLen(r.lines) <= MaxDoc
            /\ lines' = r.lines
            /\ before' = lines
            /\ mid' = r.lines
            /\ call' = [kind |-> "remove_range", range |-> range,
                        text |-> <<>>, result |-> r.result]
            /\ UNCHANGED <<window_snippets, applied>>

\* insert_at_position called on its own, as the module's tests do
InsertAtPosition ==
    /\ call.kind = "idle"
    /\ \E position \in Positions, content \in Texts :
        LET r == insert_at_position(lines, position, content)
        IN  /\ DocLen(r.lines) <= MaxDoc
            /\ lines' = r.lines
            /\ before' = lines
            /\ mid' = lines
            /\ call' = [kind |-> "insert_at_position",
                        range |-> Range_new(position, position),
                        text |-> content, result |-> r.result]
            /\ UNCHANGED <<window_snippets, applied>>

\* The call has returned (or its panic was caught): the buffer is at rest
\* until the next call.
Return ==
    /\ call.kind # "idle"
    /\ call' = Idle
    /\ before' = <<>>
    /\ mid' = <<>>
    /\ UNCHANGED <<lines, window_snippets, applied>>

Next == ContentChange \/ RemoveRange \/ InsertAtPosition \/ Return

Spec == Init /\ [][Next]_vars

(***************************************************************************)
(* Structural records (chunking/types.rs).  A function of that file is     *)
(* applied to an input drawn at the start; the buffer plays no part.       *)
(***************************************************************************)

\* Largest byte offset of a range.
MaxByte == 3
\* Longest list of records given to a function.
MaxBlocks == 3
\* Bytes per line of the file the ranges are taken from.
LineWidth == 2

\* The position at byte b of a file whose lines hold LineWidth bytes each
PositionAt(b) ==
    [line |-> b \div LineWidth, column |-> b % LineWidth, byte_offset |-> b]
RangeAt(s, e) == Range_new(PositionAt(s), PositionAt(e))

end_position(range) == range.end
to_byte_offset(position) == position.byte_offset
start_byte(range) == range.start.byte_offset
end_byte(range) == range.end.byte_offset
set_start_position(range, position) == [range EXCEPT !.start = position]
set_end_position(range, position) == [range EXCEPT !.end = position]

\* Range::contains: other lies inside self, ends included
contains(self, other) ==
    start_byte(self) <= start_byte(other) /\ end_byte(other) <= end_byte(self)

\* Range::is_contained as the fold loops call it, outer.is_contained(inner):
\* other lies inside self, ends included
is_contained(self, other) ==
    start_byte(self) <= start_byte(other) /\ end_byte(self) >= end_byte(other)

\* A comparator that orders equal starts by end_byte ascending
sorts_before_end_ascending(a, b) ==
    \/ start_byte(a) < start_byte(b)
    \/ start_byte(a) = start_byte(b) /\ end_byte(a) < end_byte(b)

\* The comparator of every sort_by of the file: a sorts strictly before b.
\* start_byte ascending, then end_byte descending
sorts_before(a, b) ==
    \/ start_byte(a) < start_byte(b)
    \/ start_byte(a) = start_byte(b) /\ end_byte(b) < end_byte(a)

RECURSIVE sorted_order(_, _)
\* slice::sort_by (stable) on the first n of the ranges: the indices in
\* sorted order
sorted_order(ranges, n) ==
    IF n = 0 THEN <<>>
    ELSE LET sofar == sorted_order(ranges, n - 1)
             \* n goes after every element that does not sort after it
             k == Cardinality({i \in 1..(n - 1) :
                                  ~ sorts_before(ranges[n], ranges[sofar[i]])})
         IN  SubSeq(sofar, 1, k) \o <<n>> \o SubSeq(sofar, k + 1, n - 1)

\* records.sort_by(|a, b| start_byte cmp, then end_byte reversed)
sort_by_range(records) ==
    LET order == sorted_order([i \in 1..Len(records) |-> records[i].range],
                              Len(records))
    IN  [i \in 1..Len(records) |-> records[order[i]]]

RECURSIVE skip_contained(_, _, _)
\* the inner while loop of fold: iterate_index when it stops (1-based)
skip_contained(blocks, index, iterate_index) ==
    IF iterate_index <= Len(blocks)
       /\ is_contained(blocks[index].range, blocks[iterate_index].range)
    THEN skip_contained(blocks, index, iterate_index + 1)
    ELSE iterate_index

\* the index the outer loop goes on with, as if it were iterate_index + 1
next_index_skips_one(blocks, index) == skip_contained(blocks, index, index + 1) + 1

\* the index the outer loop goes on with: index = iterate_index
next_index(blocks, index) == skip_contained(blocks, index, index + 1)

RECURSIVE fold_from(_, _)
\* the outer while loop of fold: the records pushed from index on
fold_from(blocks, index) ==
    IF index > Len(blocks) THEN <<>>
    ELSE <<blocks[index]>> \o fold_from(blocks, next_index(blocks, index))

\* FunctionInformation::fold_function_blocks
fold_function_blocks(function_blocks) == fold_from(sort_by_range(function_blocks), 1)
\* ClassInformation::fold_class_information
fold_class_information(classes) == fold_from(sort_by_range(classes), 1)
\* TypeInformation::fold_type_information
fold_type_information(types) == fold_from(sort_by_range(types), 1)

\* FunctionNodeInformation with the name set
FunctionNodeInformation(name) ==
    [name |-> name, documentation |-> <<>>, variables |-> <<>>]
\* FunctionInformation::new followed, when info is <<node information>>, by
\* set_node_information; an Option is <<>> (None) or <<x>> (Some(x))
FunctionInformation(range, info) ==
    [range |-> range, type |-> "Function", node_information |-> info]
\* ClassInformation::new
ClassInformation_new(range, name) ==
    [range |-> range, name |-> name, class_node_type |-> "ClassDeclaration",
     documentation |-> <<>>]
\* TypeInformation::new
TypeInformation_new(range, name) ==
    [range |-> range, name |-> name, node_type |-> "TypeDeclaration",
     documentation |-> <<>>]

\* The ranges a capture can have: start_byte <= end_byte <= MaxByte
ByteRanges == {RangeAt(s, e) : s \in 0..MaxByte, e \in 0..MaxByte} \cap
              {RangeAt(s, s + d) : s \in 0..MaxByte, d \in 0..MaxByte}
\* The lists of captured ranges: at most MaxBlocks ranges each
RangeLists == SeqsUpTo(ByteRanges, MaxBlocks)

\* The k-th capture of each kind, named by its place in the list
FunctionBlocks(ranges) ==
    [k \in 1..Len(ranges) |->
        FunctionInformation(ranges[k], <<FunctionNodeInformation(k)>>)]
ClassBlocks(ranges) == [k \in 1..Len(ranges) |-> ClassInformation_new(ranges[k], k)]
TypeBlocks(ranges) == [k \in 1..Len(ranges) |-> TypeInformation_new(ranges[k], k)]

\* The buffer is left alone while a function is applied.
BufferAtRest ==
    /\ lines = <<DocumentLine("Unedited", <<>>)>>
    /\ window_snippets = <<>>
    /\ call = Idle
    /\ before = <<>>
    /\ mid = <<>>

buffer == <<lines, window_snippets, call, before, mid>>

Pending(fn, input) == [op |-> "pending", fn |-> fn, input |-> input, output |-> <<>>]
Applied(fn, input, output) ==
    [op |-> "applied", fn |-> fn, input |-> input, output |-> output]

FoldInit ==
    /\ BufferAtRest
    /\ \E ranges \in RangeLists :
          \/ applied = Pending("fold_function_blocks", FunctionBlocks(ranges))
          \/ applied = Pending("fold_class_information", ClassBlocks(ranges))
          \/ applied = Pending("fold_type_information", TypeBlocks(ranges))

FoldFunctionBlocks ==
    /\ applied.op = "pending" /\ applied.fn = "fold_function_blocks"
    /\ applied' = Applied(applied.fn, applied.input, fold_function_blocks(applied.input))
    /\ UNCHANGED buffer

FoldClassInformation ==
    /\ applied.op = "pending" /\ applied.fn = "fold_class_information"
    /\ applied' = Applied(applied.fn, applied.input, fold_class_information(applied.input))
    /\ UNCHANGED buffer

FoldTypeInformation ==
    /\ applied.op = "pending" /\ applied.fn = "fold_type_information"
    /\ applied' = Applied(applied.fn, applied.input, fold_type_information(applied.input))
    /\ UNCHANGED buffer

\* The function applied.fn names, applied to a list of its records
Fold(fn, blocks) ==
    IF fn = "fold_function_blocks" THEN fold_function_blocks(blocks)
    ELSE IF fn = "fold_class_information" THEN fold_class_information(blocks)
    ELSE fold_type_information(blocks)

\* The folded list is folded once more by the same function.
FoldAgain ==
    /\ applied.op = "applied"
    /\ applied.fn \in {"fold_function_blocks", "fold_class_information",
                       "fold_type_information"}
    /\ applied' = [applied EXCEPT !.op = "again",
                                  !.output = Fold(applied.fn, applied.output)]
    /\ UNCHANGED buffer

FoldNext == FoldFunctionBlocks \/ FoldClassInformation \/ FoldTypeInformation \/ FoldAgain

SpecFold == FoldInit /\ [][FoldNext]_vars

(***************************************************************************)
(* Documentation comments (chunking/types.rs)                              *)
(***************************************************************************)

\* Largest byte offset of a documentation comment or of a documented record.
MaxDocByte == 5

\* Position::new(line, column, byte_offset)
Position_new_at(line, column, byte_offset) ==
    [line |-> line, column |-> column, byte_offset |-> byte_offset]

\* documentation_entries.sort_by(...): an entry is (Range, String)
sort_documentation_entries(documentation_entries) ==
    LET order == sorted_order([i \in 1..Len(documentation_entries) |->
                                  documentation_entries[i][1]],
                              Len(documentation_entries))
    IN  [i \in 1..Len(documentation_entries) |-> documentation_entries[order[i]]]

RECURSIVE concat_consecutive(_, _, _, _, _)
\* the inner while loop: the entry pushed and iterate_index when it stops
concat_consecutive(documentation_entries, iterate_index, current_index_end_line, documentation_str, documentation_range) ==
    IF iterate_index <= Len(documentation_entries)
       /\ current_index_end_line + 1
             = start_line(documentation_entries[iterate_index][1])
    THEN concat_consecutive(
             documentation_entries, iterate_index + 1,
             end_line(documentation_entries[iterate_index][1]),
             documentation_str \o <<NL>> \o documentation_entries[iterate_index][2],
             set_end_position(documentation_range,
                              end_position(documentation_entries[iterate_index][1])))
    ELSE [entry |-> <<documentation_range, documentation_str>>,
          iterate_index |-> iterate_index]

RECURSIVE concat_from(_, _)
\* the outer while loop, from documentation_index on (1-based)
concat_from(documentation_entries, documentation_index) ==
    IF documentation_index > Len(documentation_entries) THEN <<>>
    ELSE LET run == concat_consecutive(
                        documentation_entries, documentation_index + 1,
                        end_line(documentation_entries[documentation_index][1]),
                        documentation_entries[documentation_index][2],
                        documentation_entries[documentation_index][1])
         IN  <<run.entry>> \o concat_from(documentation_entries, run.iterate_index)

\* the entries concatenated in the order given
concat_documentation_string_as_given(documentation_entries) ==
    concat_from(documentation_entries, 1)

\* concat_documentation_string
concat_documentation_string(documentation_entries) ==
    concat_from(sort_documentation_entries(documentation_entries), 1)

\* FunctionInformation::set_documentation
FunctionInformation_set_documentation(self, documentation) ==
    IF self.node_information = <<>> THEN self
    ELSE [self EXCEPT !.node_information =
             <<[self.node_information[1] EXCEPT !.documentation = <<documentation>>]>>]
\* ClassInformation::set_documentation
ClassInformation_set_documentation(self, documentation) ==
    [self EXCEPT !.documentation = <<documentation>>]
\* TypeInformation::set_documentation
TypeInformation_set_documentation(self, documentation) ==
    [self EXCEPT !.documentation = <<documentation>>]

\* the body of the closure given to for_each: one documentation entry offered
\* to a block; set_documentation is the one of the block's type
offer_documentation(block, documentation_entry, documented) ==
    IF start_line(block.range) # 0
       /\ end_line(documentation_entry[1]) = start_line(block.range) - 1
    THEN [documented EXCEPT
             !.range = set_start_position(block.range,
                                          start_position(documentation_entry[1]))]
    ELSE block

RECURSIVE offer_function(_, _, _)
\* documentation_entires.iter().for_each(...) on a function block, from entry i on
offer_function(function_block, documentation_entires, i) ==
    IF i > Len(documentation_entires) THEN function_block
    ELSE offer_function(
             offer_documentation(function_block, documentation_entires[i],
                 FunctionInformation_set_documentation(function_block,
                                                       documentation_entires[i][2])),
             documentation_entires, i + 1)

RECURSIVE offer_class(_, _, _)
\* documentation_entires.iter().for_each(...) on a class block, from entry i on
offer_class(class_block, documentation_entires, i) ==
    IF i > Len(documentation_entires) THEN class_block
    ELSE offer_class(
             offer_documentation(class_block, documentation_entires[i],
                 ClassInformation_set_documentation(class_block,
                                                    documentation_entires[i][2])),
             documentation_entires, i + 1)

RECURSIVE offer_type(_, _, _)
\* documentation_entires.iter().for_each(...) on a type block, from entry i on
offer_type(type_block, documentation_entires, i) ==
    IF i > Len(documentation_entires) THEN type_block
    ELSE offer_type(
             offer_documentation(type_block, documentation_entires[i],
                 TypeInformation_set_documentation(type_block,
                                                   documentation_entires[i][2])),
             documentation_entires, i + 1)

\* FunctionInformation::add_documentation_to_functions
add_documentation_to_functions(function_blocks, documentation_entries) ==
    LET sorted == sort_by_range(function_blocks)
        documentation_entires == concat_documentation_string(documentation_entries)
    IN  [k \in 1..Len(sorted) |-> offer_function(sorted[k], documentation_entires, 1)]

\* ClassInformation::add_documentation_to_classes
add_documentation_to_classes(class_blocks, documentation_entries) ==
    LET sorted == sort_by_range(class_blocks)
        documentation_entires == concat_documentation_string(documentation_entries)
    IN  [k \in 1..Len(sorted) |-> offer_class(sorted[k], documentation_entires, 1)]

\* TypeInformation::add_documentation_to_types
add_documentation_to_types(type_blocks, documentation_entries) ==
    LET sorted == sort_by_range(type_blocks)
        documentation_entires == concat_documentation_string(documentation_entries)
    IN  [k \in 1..Len(sorted) |-> offer_type(sorted[k], documentation_entires, 1)]

\* The ranges of the nodes of a file of MaxDocByte + 1 bytes
DocRanges == {RangeAt(b, b + d) : b \in 0..MaxDocByte, d \in 0..MaxDocByte} \cap
             {RangeAt(b, e) : b \in 0..MaxDocByte, e \in 0..MaxDocByte}
\* Two nodes of one syntax tree, neither inside the other, share no byte
\* but the one where the first ends and the second starts.
Apart(a, b) == end_byte(a) <= start_byte(b) \/ end_byte(b) <= start_byte(a)

RECURSIVE CommentRanges(_)
\* The ranges of up to n comments of the file, in any order
CommentRanges(n) ==
    IF n = 0 THEN {<<>>}
    ELSE LET shorter == CommentRanges(n - 1)
             longest == {rs \in shorter : Len(rs) = n - 1}
         IN  shorter \cup
             {Append(p[1], p[2]) :
                 p \in {q \in longest \X DocRanges :
                           \A i \in 1..(n - 1) : Apart(q[1][i], q[2])}}

\* The k-th comment captured: its range and its text
DocumentationEntries(ranges) == [k \in 1..Len(ranges) |-> <<ranges[k], <<96 + k>>>>]

\* The four comments of test_documentation_string_concatenation
TestDocumentationStrings ==
    <<<<Range_new(Position_new_at(0, 0, 0), Position_new_at(0, 0, 0)), <<97>>>>,
      <<Range_new(Position_new_at(1, 0, 0), Position_new_at(1, 0, 0)), <<98>>>>,
      <<Range_new(Position_new_at(4, 0, 0), Position_new_at(6, 0, 0)), <<99>>>>,
      <<Range_new(Position_new_at(7, 0, 0), Position_new_at(7, 0, 0)), <<100>>>>>>

\* The comments of the file in the order of the file, and a record of the
\* same syntax tree: each comment lies inside the record or apart from it
DocumentedRecords ==
    {<<r, cs>> \in DocRanges \X CommentRanges(MaxBlocks) :
        /\ \A i, j \in 1..Len(cs) : i < j => end_byte(cs[i]) <= start_byte(cs[j])
        /\ \A i \in 1..Len(cs) : Apart(cs[i], r) \/ contains(r, cs[i])}

Documenting(blocks, comments) ==
    [blocks |-> blocks, documentation_entries |-> DocumentationEntries(comments)]

DocInit ==
    /\ BufferAtRest
    /\ \/ \E ranges \in CommentRanges(MaxBlocks) :
             applied = Pending("concat_documentation_string",
                               DocumentationEntries(ranges))
       \/ applied = Pending("concat_documentation_string", TestDocumentationStrings)
       \/ \E rc \in DocumentedRecords :
             \/ \E info \in {<<>>, <<FunctionNodeInformation(1)>>} :
                   applied = Pending("add_documentation_to_functions",
                       Documenting(<<FunctionInformation(rc[1], info)>>, rc[2]))
             \/ applied = Pending("add_documentation_to_classes",
                       Documenting(<<ClassInformation_new(rc[1], 1)>>, rc[2]))
             \/ applied = Pending("add_documentation_to_types",
                       Documenting(<<TypeInformation_new(rc[1], 1)>>, rc[2]))

ConcatDocumentationString ==
    /\ applied.op = "pending" /\ applied.fn = "concat_documentation_string"
    /\ applied' = Applied(applied.fn, applied.input,
                          concat_documentation_string(applied.input))
    /\ UNCHANGED buffer

AddDocumentationToFunctions ==
    /\ applied.op = "pending" /\ applied.fn = "add_documentation_to_functions"
    /\ applied' = Applied(applied.fn, applied.input,
                          add_documentation_to_functions(
                              applied.input.blocks, applied.input.documentation_entries))
    /\ UNCHANGED buffer

AddDocumentationToClasses ==
    /\ applied.op = "pending" /\ applied.fn = "add_documentation_to_classes"
    /\ applied' = Applied(applied.fn, applied.input,
                          add_documentation_to_classes(
                              applied.input.blocks, applied.input.documentation_entries))
    /\ UNCHANGED buffer

AddDocumentationToTypes ==
    /\ applied.op = "pending" /\ applied.fn = "add_documentation_to_types"
    /\ applied' = Applied(applied.fn, applied.input,
                          add_documentation_to_types(
                              applied.input.blocks, applied.input.documentation_entries))
    /\ UNCHANGED buffer

DocNext ==
    \/ ConcatDocumentationString
    \/ AddDocumentationToFunctions
    \/ AddDocumentationToClasses
    \/ AddDocumentationToTypes

SpecDoc == DocInit /\ [][DocNext]_vars

(***************************************************************************)
(* Identifiers, enclosing function, expanded selection (chunking/types.rs) *)
(***************************************************************************)

\* Longest list of identifier nodes.
MaxIdentifiers == 2

\* FunctionInformation::insert_identifier_node
insert_identifier_node(self, identiifer_name, identifier_range) ==
    IF self.node_information = <<>> THEN self
    ELSE [self EXCEPT !.node_information =
             <<[self.node_information[1] EXCEPT
                   !.variables = Append(@, <<identiifer_name, identifier_range>>)]>>]

RECURSIVE offer_identifiers(_, _, _)
\* identifier_nodes.iter().for_each(...) on a function block, from node i on
offer_identifiers(function_block, identifier_nodes, i) ==
    IF i > Len(identifier_nodes) THEN function_block
    ELSE offer_identifiers(
             IF contains(function_block.range, identifier_nodes[i][2])
                THEN insert_identifier_node(function_block, identifier_nodes[i][1],
                                            identifier_nodes[i][2])
                ELSE function_block,
             identifier_nodes, i + 1)

\* FunctionInformation::add_identifier_nodes
add_identifier_nodes(function_blocks, identifier_nodes) ==
    LET sorted == sort_by_range(function_blocks)
    IN  [k \in 1..Len(sorted) |-> offer_identifiers(sorted[k], identifier_nodes, 1)]

RECURSIVE first_function_from(_, _, _)
\* a scan that stops at the first block the offset lies in
first_function_from(function_blocks, byte_offset, i) ==
    IF i > Len(function_blocks) THEN <<>>
    ELSE IF contains(function_blocks[i].range, RangeAt(byte_offset, byte_offset))
         THEN <<function_blocks[i]>>
         ELSE first_function_from(function_blocks, byte_offset, i + 1)

first_function_in_byte_offset(function_blocks, byte_offset) ==
    first_function_from(function_blocks, byte_offset, 1)

RECURSIVE scan_function_blocks_one_past(_, _, _, _)
\* the for loop as if it went on to a block that starts one byte after the
\* offset
scan_function_blocks_one_past(function_blocks, byte_offset, i, possible_function_block) ==
    IF i > Len(function_blocks) THEN possible_function_block
    ELSE IF ~ (end_byte(function_blocks[i].range) < byte_offset)
         THEN IF start_byte(function_blocks[i].range) > byte_offset + 1
              THEN possible_function_block
              ELSE scan_function_blocks_one_past(function_blocks, byte_offset, i + 1,
                                                 <<function_blocks[i]>>)
         ELSE scan_function_blocks_one_past(function_blocks, byte_offset, i + 1,
                                            possible_function_block)

RECURSIVE scan_function_blocks(_, _, _, _)
\* the for loop of find_function_in_byte_offset from block i on:
\* possible_function_block when it ends
scan_function_blocks(function_blocks, byte_offset, i, possible_function_block) ==
    IF i > Len(function_blocks) THEN possible_function_block
    ELSE IF ~ (end_byte(function_blocks[i].range) < byte_offset)
         THEN IF start_byte(function_blocks[i].range) > byte_offset
              THEN possible_function_block
              ELSE scan_function_blocks(function_blocks, byte_offset, i + 1,
                                        <<function_blocks[i]>>)
         ELSE scan_function_blocks(function_blocks, byte_offset, i + 1,
                                   possible_function_block)

\* FunctionInformation::find_function_in_byte_offset: <<>> or <<block>>
find_function_in_byte_offset(function_blocks, byte_offset) ==
    scan_function_blocks(function_blocks, byte_offset, 1, <<>>)

\* the first if let of get_expanded_selection_range
expand_to_start_function(selection_start_fn_body, start_position_, end_position_) ==
    IF selection_start_fn_body = <<>>
    THEN [start_position |-> start_position_, end_position |-> end_position_]
    ELSE LET selection_start_function == selection_start_fn_body[1]
         IN  [start_position |->
                 IF to_byte_offset(start_position_)
                       > start_byte(selection_start_function.range)
                 THEN start_position(selection_start_function.range)
                 ELSE start_position_,
              end_position |->
                 IF end_byte(selection_start_function.range)
                       > to_byte_offset(end_position_)
                 THEN end_position(selection_start_function.range)
                 ELSE end_position_]

\* the second if let of get_expanded_selection_range
expand_to_end_function(selection_end_fn_body, start_position_, end_position_) ==
    IF selection_end_fn_body = <<>>
    THEN [start_position |-> start_position_, end_position |-> end_position_]
    ELSE LET selection_end_function == selection_end_fn_body[1]
         IN  [start_position |->
                 IF start_byte(selection_end_function.range)
                       < to_byte_offset(start_position_)
                 THEN start_position(selection_end_function.range)
                 ELSE start_position_,
              end_position |->
                 IF end_byte(selection_end_function.range)
                       > to_byte_offset(end_position_)
                 THEN end_position(selection_end_function.range)
                 ELSE end_position_]

\* a selection expanded to the function at its start only
expanded_to_start_function_only(function_bodies, selection_range) ==
    LET expanded == expand_to_start_function(
                        find_function_in_byte_offset(function_bodies,
                                                     start_byte(selection_range)),
                        start_position(selection_range), end_position(selection_range))
    IN  Range_new(expanded.start_position, expanded.end_position)

\* FunctionInformation::get_expanded_selection_range
get_expanded_selection_range(function_bodies, selection_range) ==
    LET selection_start_fn_body ==
            find_function_in_byte_offset(function_bodies, start_byte(selection_range))
        selection_end_fn_body ==
            find_function_in_byte_offset(function_bodies, end_byte(selection_range))
        first == expand_to_start_function(selection_start_fn_body,
                     start_position(selection_range), end_position(selection_range))
        second == expand_to_end_function(selection_end_fn_body,
                      first.start_position, first.end_position)
    IN  Range_new(second.start_position, second.end_position)

\* Function records in the order of their start bytes
SortedFunctions ==
    {FunctionBlocks(ranges) : ranges \in
        {rs \in RangeLists : \A i \in 1..(Len(rs) - 1) :
                                start_byte(rs[i]) <= start_byte(rs[i + 1])}}
\* Function records as fold_function_blocks returns them; lacking = 1 when the
\* first one was made by FunctionInformation::new alone
FoldedFunctions ==
    {[k \in 1..Len(bs) |->
         IF k = lacking THEN FunctionInformation(bs[k].range, <<>>) ELSE bs[k]] :
       bs \in {fs \in SortedFunctions : fold_function_blocks(fs) = fs},
       lacking \in 0..1}
\* The identifier nodes captured, in the order of the file: (name, range)
IdentifierNodes ==
    {[k \in 1..Len(rs) |-> <<k, rs[k]>>] :
       rs \in {ids \in SeqsUpTo(ByteRanges, MaxIdentifiers) :
                  \A i \in 1..(Len(ids) - 1) : sorts_before(ids[i], ids[i + 1])}}

FunctionsInit ==
    /\ BufferAtRest
    /\ \/ \E bs \in FoldedFunctions, ids \in IdentifierNodes :
             applied = Pending("add_identifier_nodes",
                               [function_blocks |-> bs, identifier_nodes |-> ids])
       \/ \E bs \in SortedFunctions, byte_offset \in 0..(MaxByte + 1) :
             applied = Pending("find_function_in_byte_offset",
                               [function_blocks |-> bs, byte_offset |-> byte_offset])
       \/ \E bs \in SortedFunctions, selection_range \in ByteRanges :
             applied = Pending("get_expanded_selection_range",
                               [function_bodies |-> bs,
                                selection_range |-> selection_range])

AddIdentifierNodes ==
    /\ applied.op = "pending" /\ applied.fn = "add_identifier_nodes"
    /\ applied' = Applied(applied.fn, applied.input,
                          add_identifier_nodes(applied.input.function_blocks,
                                               applied.input.identifier_nodes))
    /\ UNCHANGED buffer

FindFunctionInByteOffset ==
    /\ applied.op = "pending" /\ applied.fn = "find_function_in_byte_offset"
    /\ applied' = Applied(applied.fn, applied.input,
                          find_function_in_byte_offset(applied.input.function_blocks,
                                                       applied.input.byte_offset))
    /\ UNCHANGED buffer

GetExpandedSelectionRange ==
    /\ applied.op = "pending" /\ applied.fn = "get_expanded_selection_range"
    /\ applied' = Applied(applied.fn, applied.input,
                          get_expanded_selection_range(applied.input.function_bodies,
                                                       applied.input.selection_range))
    /\ UNCHANGED buffer

\* get_expanded_selection_range called with the range it returned, for the
\* same function list
ExpandAgain ==
    /\ applied.op = "applied" /\ applied.fn = "get_expanded_selection_range"
    /\ applied' = [applied EXCEPT
                      !.op = "again",
                      !.output = [expanded |-> applied.output,
                                  again |-> get_expanded_selection_range(
                                                applied.input.function_bodies,
                                                applied.output)]]
    /\ UNCHANGED buffer

FunctionsNext ==
    \/ AddIdentifierNodes
    \/ FindFunctionInByteOffset
    \/ GetExpandedSelectionRange
    \/ ExpandAgain

SpecFunctions == FunctionsInit /\ [][FunctionsNext]_vars

(***************************************************************************)
(* Snippets (inline_completion/document/content.rs)                        *)
(***************************************************************************)

\* Last line number of a snippet.
MaxSnippetLine == 4
\* Longest list of snippets given to coelace_snippets.
MaxSnippets == 3

\* SnippetInformation::new
SnippetInformation_new(snippet_lines, start_line_, end_line_) ==
    [snippet_lines |-> snippet_lines, start_line |-> start_line_, end_line |-> end_line_]

\* (line_number, line) for each line of a snippet, as a map from line numbers
numbered_lines(snippet) ==
    [line_number \in snippet.start_line..(snippet.start_line + Len(snippet.snippet_lines) - 1)
        |-> snippet.snippet_lines[line_number - snippet.start_line + 1]]

\* line_map after the lines of both snippets were inserted, those of the
\* first snippet last
line_map_first_inserted_last(self, after) ==
    [line_number \in DOMAIN numbered_lines(self) \cup DOMAIN numbered_lines(after) |->
        IF line_number \in DOMAIN numbered_lines(self)
        THEN numbered_lines(self)[line_number]
        ELSE numbered_lines(after)[line_number]]

\* line_map after the lines of self and then those of after were inserted
line_map(self, after) ==
    [line_number \in DOMAIN numbered_lines(self) \cup DOMAIN numbered_lines(after) |->
        IF line_number \in DOMAIN numbered_lines(after)
        THEN numbered_lines(after)[line_number]
        ELSE numbered_lines(self)[line_number]]

\* line_map.remove(&index).unwrap() finds a line for every index of the loop
merge_unwraps(self, after) ==
    \A index \in self.start_line..after.end_line : index \in DOMAIN line_map(self, after)

\* SnippetInformation::merge_snippets, when no unwrap panics
merge_snippets(self, after) ==
    [snippet_lines |-> [k \in 1..(after.end_line + 1 - self.start_line) |->
                           line_map(self, after)[self.start_line + k - 1]],
     start_line |-> self.start_line,
     end_line |-> after.end_line]

\* the snippets left in the order given
snippets_in_given_order(snippets) == snippets

RECURSIVE sort_by_start_line(_)
\* snippets.sort_by(|a, b| a.start_line.cmp(&b.start_line)), a stable sort
sort_by_start_line(snippets) ==
    IF snippets = <<>> THEN <<>>
    ELSE LET n == Len(snippets)
             sofar == sort_by_start_line(SubSeq(snippets, 1, n - 1))
             k == Cardinality({i \in 1..(n - 1) :
                                  sofar[i].start_line <= snippets[n].start_line})
         IN  SubSeq(sofar, 1, k) \o <<snippets[n]>> \o SubSeq(sofar, k + 1, n - 1)

RECURSIVE coelace_from(_, _, _, _)
\* the for loop of coelace_snippets from index i on (1-based) and the push
\* after it: <<merged_snippets>>, or <<>> when an unwrap of merge_snippets
\* panics
coelace_from(snippets, i, current_snippet, merged_snippets) ==
    IF i > Len(snippets) THEN <<Append(merged_snippets, current_snippet)>>
    ELSE IF current_snippet.end_line >= snippets[i].start_line
         THEN IF merge_unwraps(current_snippet, snippets[i])
              THEN coelace_from(snippets, i + 1,
                                merge_snippets(current_snippet, snippets[i]),
                                merged_snippets)
              ELSE <<>>
         ELSE coelace_from(snippets, i + 1, snippets[i],
                           Append(merged_snippets, current_snippet))

\* SnippetInformation::coelace_snippets: <<the snippets returned>>, or <<>>
\* when it panics
coelace_snippets(snippets) ==
    LET sorted == sort_by_start_line(snippets)
    IN  IF sorted = <<>> THEN <<<<>>>>
        ELSE coelace_from(sorted, 2, sorted[1], <<>>)

\* The k-th snippet of lines first..last of a file: its line n reads (k, n)
SnippetOf(k, first, last) ==
    SnippetInformation_new([j \in 1..(last - first + 1) |-> <<96 + k, 48 + first + j - 1>>],
                           first, last)
SnippetSpans == {sp \in (1..MaxSnippetLine) \X (1..MaxSnippetLine) : sp[1] <= sp[2]}
\* Lists of up to n snippets
SnippetLists ==
    {[k \in 1..Len(sps) |-> SnippetOf(k, sps[k][1], sps[k][2])] :
        sps \in SeqsUpTo(SnippetSpans, MaxSnippets)}

SnippetsInit ==
    /\ BufferAtRest
    /\ \/ \E snippets \in SnippetLists :
             applied = Pending("coelace_snippets", snippets)
       \/ \E snippets \in SnippetLists, first \in 1..MaxSnippetLine, front \in BOOLEAN :
             \* with a snippet of no lines, as BagOfWords::new(lines, 1, 0) holds
             LET empty == SnippetInformation_new(<<>>, first, first - 1)
             IN  /\ Len(snippets) < MaxSnippets
                 /\ applied = Pending("coelace_snippets",
                                      IF front THEN <<empty>> \o snippets
                                      ELSE Append(snippets, empty))
       \/ \E a \in SnippetSpans, b \in SnippetSpans :
             /\ a[1] <= b[1]
             /\ applied = Pending("merge_snippets",
                                  [self |-> SnippetOf(1, a[1], a[2]),
                                   after |-> SnippetOf(2, b[1], b[2])])

MergeSnippets ==
    /\ applied.op = "pending" /\ applied.fn = "merge_snippets"
    /\ applied' = Applied(applied.fn, applied.input,
                          IF merge_unwraps(applied.input.self, applied.input.after)
                             THEN <<merge_snippets(applied.input.self,
                                                   applied.input.after)>>
                             ELSE <<>>)
    /\ UNCHANGED buffer

CoelaceSnippets ==
    /\ applied.op = "pending" /\ applied.fn = "coelace_snippets"
    /\ applied' = Applied(applied.fn, applied.input, coelace_snippets(applied.input))
    /\ UNCHANGED buffer

SnippetsNext == MergeSnippets \/ CoelaceSnippets

SpecSnippets == SnippetsInit /\ [][SnippetsNext]_vars

(***************************************************************************)
(* Similar snippets (inline_completion/document/content.rs)                *)
(***************************************************************************)

\* Windows the cache holds: the file has WindowSize + MaxWindows lines.
MaxWindows == 11
\* Lines at the start of the file, and lines after line WindowSize, whose
\* words vary.
MaxVaried == 2
\* scored_snippets.truncate(10)
MaxSnippetsPerFile == 10

\* \w, [A-Z] and [a-z] of the regexes, for the ASCII bytes the model's texts
\* hold
Word == (48..57) \cup (65..90) \cup {95} \cup (97..122)
Upper == 65..90
Lower == 97..122

RECURSIVE run_end(_, _, _)
\* the last index of the run of bytes of the class that starts at i
run_end(text, i, class) ==
    IF i < Len(text) /\ text[i + 1] \in class THEN run_end(text, i + 1, class) ELSE i

RECURSIVE find_words(_, _)
\* re.find_iter(code) for \b\w+\b: the longest runs of word bytes from i on
find_words(code, i) ==
    IF i > Len(code) THEN <<>>
    ELSE IF code[i] \in Word
         THEN LET j == run_end(code, i, Word)
              IN  <<SubSeq(code, i, j)>> \o find_words(code, j + 1)
         ELSE find_words(code, i + 1)

RECURSIVE split_underscore(_, _, _)
\* text.split('_'): the parts from i on, current being the part begun
split_underscore(text, i, current) ==
    IF i > Len(text) THEN <<current>>
    ELSE IF text[i] = 95
         THEN <<current>> \o split_underscore(text, i + 1, <<>>)
         ELSE split_underscore(text, i + 1, Append(current, text[i]))

RECURSIVE camel_parts(_, _)
\* camel_re.find_iter(text) for [A-Z][a-z]+|[a-z]+|[A-Z]+(?=[A-Z]|$), from i on
camel_parts(text, i) ==
    IF i > Len(text) THEN <<>>
    ELSE IF text[i] \in Upper /\ i < Len(text) /\ text[i + 1] \in Lower
         THEN LET j == run_end(text, i + 1, Lower)
              IN  <<SubSeq(text, i, j)>> \o camel_parts(text, j + 1)
    ELSE IF text[i] \in Lower
         THEN LET j == run_end(text, i, Lower)
              IN  <<SubSeq(text, i, j)>> \o camel_parts(text, j + 1)
    ELSE IF text[i] \in Upper
         THEN LET j == run_end(text, i, Upper)
              IN  IF j = Len(text)
                  THEN <<SubSeq(text, i, j)>>
                  ELSE IF j > i
                       THEN <<SubSeq(text, i, j - 1)>> \o camel_parts(text, j)
                       ELSE camel_parts(text, i + 1)
    ELSE camel_parts(text, i + 1)

\* a token of any length counts as valid
token_not_empty(token) == Len(token) > 0

\* BagOfWords::check_valid_token
check_valid_token(token) == Len(token) > 1

\* BagOfWords::tokenize_call: the set of valid tokens of the code
tokenize_call(code) ==
    LET found == find_words(code, 1)
        parts(text) ==
            IF \E k \in 1..Len(text) : text[k] = 95 THEN split_underscore(text, 1, <<>>)
            ELSE IF \E k \in 1..Len(text) : text[k] \in Upper THEN camel_parts(text, 1)
            ELSE <<text>>
    IN  UNION {{parts(found[m])[k] : k \in {n \in 1..Len(parts(found[m])) :
                                            check_valid_token(parts(found[m])[n])}} :
               m \in 1..Len(found)}

\* the words of the BagOfWords that BagOfWords::new makes of the lines
BagOfWords_words(snippet_lines) == tokenize_call(join(snippet_lines, <<NL>>))

\* BagOfWords::jaccard_score: the f32 quotient intersection_size / union_size,
\* kept as the two sizes (NaN when union_size = 0)
jaccard_score(self_words, other_words) ==
    LET intersection_size == Cardinality(self_words \cap other_words)
    IN  [intersection_size |-> intersection_size,
         union_size |-> Cardinality(self_words) + Cardinality(other_words)
                           - intersection_size]

\* score > 0.3 in f32: false for NaN.  For sizes below 2^11 the quotient
\* rounds to 0.3f32 or below exactly when it is at most 3/10.
score_above_threshold(score) ==
    score.union_size > 0 /\ 10 * score.intersection_size > 3 * score.union_size

\* a.partial_cmp(&b) == Greater, for two scores that are not NaN
score_greater(a, b) ==
    a.intersection_size * b.union_size > b.intersection_size * a.union_size

\* str::lines: the lines of the context, without an empty last line
str_lines(context) ==
    LET pieces == split_on_lines_editor_compatiable(context)
    IN  IF pieces[Len(pieces)] = <<>> THEN SubSeq(pieces, 1, Len(pieces) - 1) ELSE pieces

RECURSIVE filter_map_scored(_, _, _)
\* window_snippets.iter().filter_map(...): (score, snippet) of each window
\* from i on whose score is above 0.3
filter_map_scored(snippets, bag_of_words, i) ==
    IF i > Len(snippets) THEN <<>>
    ELSE LET score == jaccard_score(BagOfWords_words(snippets[i].snippet_lines),
                                    bag_of_words)
         IN  (IF score_above_threshold(score) THEN <<<<score, snippets[i]>>>> ELSE <<>>)
             \o filter_map_scored(snippets, bag_of_words, i + 1)

\* the scored snippets left in the order of the cache
scored_in_cache_order(scored_snippets) == scored_snippets

RECURSIVE sort_by_score(_)
\* scored_snippets.sort_by(|a, b| b.0.partial_cmp(&a.0).unwrap()): stable,
\* greatest score first
sort_by_score(scored_snippets) ==
    IF scored_snippets = <<>> THEN <<>>
    ELSE LET n == Len(scored_snippets)
             sofar == sort_by_score(SubSeq(scored_snippets, 1, n - 1))
             k == Cardinality({i \in 1..(n - 1) :
                                  ~ score_greater(scored_snippets[n][1], sofar[i][1])})
         IN  SubSeq(sofar, 1, k) \o <<scored_snippets[n]>> \o SubSeq(sofar, k + 1, n - 1)

\* DocumentEditLines::grab_similar_context
grab_similar_context(snippets, context) ==
    LET bag_of_words == BagOfWords_words(str_lines(context))
        scored_snippets == sort_by_score(filter_map_scored(snippets, bag_of_words, 1))
        truncated == SubSeq(scored_snippets, 1,
                            Min(MaxSnippetsPerFile, Len(scored_snippets)))
    IN  [j \in 1..Len(truncated) |-> truncated[j][2]]

\* The words a varied line can hold: "", "bb", "cc dd"
VariedLines == {<<>>, <<98, 98>>, <<99, 99, 32, 100, 100>>}
\* The words of line WindowSize, which every window holds: "aa", "aa bb"
CoreLines == {<<97, 97>>, <<97, 97, 32, 98, 98>>}
\* The contexts asked for: "aa", "aa_bb", "bb" and "cc" on two lines
Contexts == {<<97, 97>>, <<97, 97, 95, 98, 98>>, <<98, 98, NL, 99, 99>>}

\* A file of WindowSize + MaxWindows lines: the first MaxVaried lines are
\* head, line WindowSize is core, the MaxVaried lines after it are tail,
\* every other line is empty
FileOf(head, core, tail) ==
    [j \in 1..(WindowSize + MaxWindows) |->
        DocumentLine("Unedited",
            IF j <= MaxVaried THEN head[j]
            ELSE IF j = WindowSize THEN core
            ELSE IF j > WindowSize /\ j <= WindowSize + MaxVaried THEN tail[j - WindowSize]
            ELSE <<>>)]

\* The cache holds the windows snippets_using_sliding_window makes of the
\* lines of the file.
SimilarInit ==
    /\ \E head \in [1..MaxVaried -> VariedLines], tail \in [1..MaxVaried -> VariedLines],
          core \in CoreLines :
          /\ lines = FileOf(head, core, tail)
          /\ window_snippets =
                snippets_using_sliding_window(
                    [j \in 1..(WindowSize + MaxWindows) |->
                        FileOf(head, core, tail)[j].content])
    /\ call = Idle
    /\ before = <<>>
    /\ mid = <<>>
    /\ \E context \in Contexts : applied = Pending("grab_similar_context", context)

GrabSimilarContext ==
    /\ applied.op = "pending" /\ applied.fn = "grab_similar_context"
    /\ applied' = Applied(applied.fn, applied.input,
                          grab_similar_context(window_snippets, applied.input))
    /\ UNCHANGED buffer

SimilarNext == GrabSimilarContext

SpecSimilar == SimilarInit /\ [][SimilarNext]_vars

(***************************************************************************)
(* Tokens and scores (inline_completion/document/content.rs)               *)
(***************************************************************************)

\* Bytes of the longest word tokenize_call is given
MaxWord == 4
\* Bytes of the words given in pairs
MaxPairWord == 2
\* Tokens the two bags of jaccard_score are made of
MaxTokens == 3

\* The bytes of the words: a, B, _ and 1
WordBytes == {97, 66, 95, 49}
\* The bytes between two words: space and line break
Separators == {32, NL}

\* The texts tokenize_call is given: one word, or two words with a separator
TokenWords == SeqsUpTo(WordBytes, MaxWord) \ {<<>>}
TokenTexts ==
    TokenWords \cup
    {w \o <<sep>> \o x : w \in SeqsUpTo(WordBytes, MaxPairWord) \ {<<>>},
                         x \in SeqsUpTo(WordBytes, MaxPairWord) \ {<<>>},
                         sep \in Separators}

\* The words of the two bags: "aa", "bb", ...
BagTokens == {<<96 + k, 96 + k>> : k \in 1..MaxTokens}

TokensInit ==
    /\ BufferAtRest
    /\ \/ \E code \in TokenTexts : applied = Pending("tokenize_call", code)
       \/ \E self_words \in SUBSET BagTokens, other_words \in SUBSET BagTokens :
             applied = Pending("jaccard_score", [self |-> self_words, other |-> other_words])

TokenizeCall ==
    /\ applied.op = "pending" /\ applied.fn = "tokenize_call"
    /\ applied' = Applied(applied.fn, applied.input, tokenize_call(applied.input))
    /\ UNCHANGED buffer

JaccardScore ==
    /\ applied.op = "pending" /\ applied.fn = "jaccard_score"
    /\ applied' = Applied(applied.fn, applied.input,
                          jaccard_score(applied.input.self, applied.input.other))
    /\ UNCHANGED buffer

TokensNext == TokenizeCall \/ JaccardScore

SpecTokens == TokensInit /\ [][TokensNext]_vars

(***************************************************************************)
(* Sliding windows (inline_completion/document/content.rs)                 *)
(***************************************************************************)

\* Lines the longest list given to snippets_using_sliding_window holds
\* beyond WindowSize
MaxOver == 3

\* The filtered lines given: n lines, line j reading one byte that tells j,
\* except for one line that is empty (none when blank is 0)
WindowLines(n, blank) == [j \in 1..n |-> IF j = blank THEN <<>> ELSE <<33 + j>>]

WindowsInit ==
    /\ BufferAtRest
    /\ \E n \in 0..(WindowSize + MaxOver) : \E blank \in 0..n :
          applied = Pending("snippets_using_sliding_window", WindowLines(n, blank))

SnippetsUsingSlidingWindow ==
    /\ applied.op = "pending" /\ applied.fn = "snippets_using_sliding_window"
    /\ applied' = Applied(applied.fn, applied.input,
                          snippets_using_sliding_window(applied.input))
    /\ UNCHANGED buffer

SpecWindows == WindowsInit /\ [][SnippetsUsingSlidingWindow]_vars

(***************************************************************************)
(* Outline nodes (chunking/types.rs)                                       *)
(***************************************************************************)

\* Children of the largest outline node
MaxChildren == 2

OutlineNodeType == {"Class", "ClassName", "Function", "FunctionName", "FunctionBody"}

\* OutlineNodeContent::new
OutlineNodeContent_new(name, range, type, content) ==
    [range |-> range, name |-> name, type |-> type, content |-> content]

\* OutlineNode::new
OutlineNode_new(content, children, language) ==
    [content |-> content, children |-> children, language |-> language]

\* format!("impl {implementation_name} {{\n{children_content}\n}}")
format_impl(implementation_name, children_content) ==
    <<105, 109, 112, 108, 32>> \o implementation_name \o <<32, 123, NL>>
    \o children_content \o <<NL, 125>>

\* an outline that renders the children for every language
get_outline_any_language(self) ==
    IF self.content.type = "Class"
    THEN IF self.children = <<>>
         THEN <<self.content.content>>
         ELSE <<format_impl(self.content.name,
                            join([k \in 1..Len(self.children) |->
                                     self.children[k].content], <<NL>>))>>
    ELSE <<>>

\* OutlineNode::get_outline: <<>> for None, <<outline>> for Some(outline)
get_outline(self) ==
    IF self.content.type = "Class"
    THEN IF self.children = <<>>
         THEN <<self.content.content>>
         ELSE IF self.language = "rust"
              THEN <<format_impl(self.content.name,
                                 join([k \in 1..Len(self.children) |->
                                          self.children[k].content], <<NL>>))>>
              ELSE <<>>
    ELSE <<>>

\* The nodes asked for their outline: every type, the languages "rust",
\* "Rust" and "python", names "" and "A", raw contents "" and "c", and up to
\* MaxChildren function children whose contents are "" or "f"
OutlineChildren ==
    {[k \in 1..Len(contents) |->
         OutlineNodeContent_new(<<>>, RangeAt(0, 0), "Function", contents[k])] :
        contents \in SeqsUpTo({<<>>, <<102>>}, MaxChildren)}
OutlineNodes ==
    {OutlineNode_new(OutlineNodeContent_new(name, RangeAt(0, 0), type, content),
                     children, language) :
        name \in {<<>>, <<65>>}, type \in OutlineNodeType, content \in {<<>>, <<99>>},
        children \in OutlineChildren, language \in {"rust", "Rust", "python"}}

OutlineInit ==
    /\ BufferAtRest
    /\ \E node \in OutlineNodes : applied = Pending("get_outline", node)

GetOutline ==
    /\ applied.op = "pending" /\ applied.fn = "get_outline"
    /\ applied' = Applied(applied.fn, applied.input, get_outline(applied.input))
    /\ UNCHANGED buffer

SpecOutline == OutlineInit /\ [][GetOutline]_vars

(***************************************************************************)
(* Vocabulary of the properties                                            *)
(***************************************************************************)

RECURSIVE IsUtf8(_)
\* s is a sequence of whole UTF-8 characters
IsUtf8(s) ==
    \/ s = <<>>
    \/ LET w == utf8_char_width(s[1])
       IN  /\ s[1] < 128 \/ s[1] >= 192
           /\ w <= Len(s)
           /\ \A k \in 2..w : s[k] \in 128..191
           /\ IsUtf8(SubSeq(s, w + 1, Len(s)))

\* The code points of line number l (0-based) of ls
LineChars(ls, l) == chars(ls[l + 1].content)
Contents_of(ls) == [i \in 1..Len(ls) |-> ls[i].content]
Statuses_of(ls) == [i \in 1..Len(ls) |-> ls[i].line_status]
NewlinesIn(text) == Cardinality({i \in 1..Len(text) : text[i] = NL})

\* Position p names a place of the buffer: an existing line, a column within it
InBuffer(ls, p) == p.line < Len(ls) /\ p.column <= Len(LineChars(ls, p.line))
PosLeq(p, q) == p.line < q.line \/ (p.line = q.line /\ p.column <= q.column)
ValidRange(ls, range) ==
    InBuffer(ls, range.start) /\ InBuffer(ls, range.end) /\ PosLeq(range.start, range.end)
Degenerate(range) == range.start = range.end

RECURSIVE LineStart(_, _)
\* Number of code points of the text before line l
LineStart(ls, l) ==
    IF l = 0 THEN 0 ELSE LineStart(ls, l - 1) + Len(LineChars(ls, l - 1)) + 1
\* Number of code points of the text before position p
Offset(ls, p) == LineStart(ls, p.line) + p.column

\* The text t with the code points from offset a up to, excluding, offset b
\* replaced by new
Replaced(t, a, b, new) == SubSeq(t, 1, a) \o new \o SubSeq(t, b + 1, Len(t))

\* The last call ran a removal phase / an insertion phase to its end
Removed == call.kind \in {"remove_range", "content_change"} /\ call.result = "ok"
Inserted == call.kind \in {"insert_at_position", "content_change"} /\ call.result = "ok"

(***************************************************************************)
(* Edits with valid ranges, and an insertion taken back                    *)
(***************************************************************************)

\* content_change called with a range of the buffer
ValidContentChange == ContentChange /\ ValidRange(lines, call'.range)

\* remove_range called with a range of the buffer, as test_removing_all_content does
ValidRemoveRange == RemoveRange /\ ValidRange(lines, call'.range)

ValidNext == ValidContentChange \/ ValidRemoveRange \/ Return

SpecValid == Init /\ [][ValidNext]_vars

\* The position after the text inserted at the position
end_of_inserted(position, text) ==
    LET cs == chars(text)
        breaks == {i \in 1..Len(cs) : cs[i] = NL}
    IN  IF breaks = {} THEN Position_new(position.line, position.column + Len(cs))
        ELSE Position_new(position.line + Cardinality(breaks),
                          Len(cs) - CHOOSE i \in breaks : \A j \in breaks : j <= i)

\* content_change(Range::new(position, position), text) with a position of
\* the buffer and a text that is not empty, on a buffer that was just opened
InsertText ==
    /\ call.kind = "new"
    /\ \E position \in Positions, text \in Texts \ {<<>>} :
        LET range == Range_new(position, position)
            r == content_change(lines, range, text)
        IN  /\ InBuffer(lines, position)
            /\ lines' = r.lines
            /\ before' = lines
            /\ mid' = <<>>
            /\ call' = [kind |-> "content_change", range |-> range,
                        text |-> text, result |-> r.result]
            /\ UNCHANGED <<window_snippets, applied>>

\* content_change(range, "") with the range the inserted text lies in; before
\* keeps the buffer as it was before the text was inserted, mid is the buffer
\* that holds the text
RemoveInserted ==
    /\ call.kind = "content_change" /\ call.result = "ok" /\ call.text # <<>>
    /\ LET range == Range_new(call.range.start,
                              end_of_inserted(call.range.start, call.text))
           r == content_change(lines, range, <<>>)
       IN  /\ lines' = r.lines
           /\ mid' = lines
           /\ call' = [kind |-> "content_change", range |-> range,
                       text |-> <<>>, result |-> r.result]
           /\ UNCHANGED <<before, window_snippets, applied>>

UndoNext == InsertText \/ RemoveInserted

SpecUndo == Init /\ [][UndoNext]_vars

(***************************************************************************)
(* Properties                                                              *)
(***************************************************************************)

\* C1: after content_change(range, new_text) with a valid range, get_content()
\* is the previous text with the code points from range.start up to, excluding,
\* range.end replaced by new_text; with empty new_text and a range
\* (s,0)-(e,0), s < e, exactly the lines s..e-1 disappear and the other lines
\* keep content and order.
C1_ContentChangeReplacesRange ==
    (call.kind = "content_change" /\ ValidRange(before, call.range)) =>
        LET range == call.range
            old == chars(get_content(before))
            s == range.start.line
            e == range.end.line
        IN  /\ call.result = "ok"
            /\ get_content(lines) =
                   collect_String(Replaced(old, Offset(before, range.start),
                                           Offset(before, range.end), chars(call.text)))
            /\ (call.text = <<>> /\ s < e /\ range.start.column = 0
                                 /\ range.end.column = 0) =>
                   /\ Len(lines) = Len(before) - (e - s)
                   /\ Contents_of(lines) =
                          SubSeq(Contents_of(before), 1, s)
                          \o SubSeq(Contents_of(before), e + 1, Len(before))

\* C1 witness: a cross-line range that starts after a multi-byte character
\* was replaced by a non-empty text
W1_CrossLineReplace ==
    /\ call.kind = "content_change" /\ call.result = "ok"
    /\ ValidRange(before, call.range)
    /\ call.range.start.line < call.range.end.line
    /\ call.range.start.column > 0
    /\ before[call.range.start.line + 1].content[1] >= 128
    /\ call.text # <<>>

\* C2: a buffer made by new(content) that received no edit gives back content
\* from get_content(); empty content is exactly one empty line, other content
\* is (number of line breaks + 1) lines.
C2_NewRoundTrip ==
    call.kind = "new" =>
        /\ get_content(lines) = call.text
        /\ call.text = <<>> => (Len(lines) = 1 /\ lines[1].content = <<>>)
        /\ Len(lines) = NewlinesIn(call.text) + 1

\* C2 witness: a new buffer whose content ends in two line breaks
W2_TrailingBlankLines ==
    /\ call.kind = "new"
    /\ Len(call.text) >= 2
    /\ call.text[Len(call.text)] = NL /\ call.text[Len(call.text) - 1] = NL
    /\ Len(lines) = 3

\* C3: a cross-line removal (start_line < end_line) makes the start line its
\* first start_column code points followed by the end line from code point
\* end_column on, deletes the lines start_line+1..end_line (the line count
\* drops by end_line - start_line), leaves the other lines as they were, and
\* leaves whole characters only.
C3_CrossLineRemoval ==
    (Removed /\ call.range.start.line < call.range.end.line) =>
        LET sl == call.range.start.line
            el == call.range.end.line
            sc == call.range.start.column
            ec == call.range.end.column
            endc == LineChars(before, el)
        IN  /\ Len(mid) = Len(before) - (el - sl)
            /\ mid[sl + 1].content =
                   collect_String(SubSeq(LineChars(before, sl), 1, sc)
                                  \o SubSeq(endc, ec + 1, Len(endc)))
            /\ \A i \in 1..sl : mid[i] = before[i]
            /\ \A i \in (el + 2)..Len(before) : mid[i - (el - sl)] = before[i]
            /\ \A i \in 1..Len(mid) : IsUtf8(mid[i].content)

\* C3 witness: a cross-line removal that cut the start line after a
\* multi-byte character
W3_CrossLineAfterMultiByte ==
    /\ call.kind = "remove_range" /\ call.result = "ok"
    /\ call.range.start.line < call.range.end.line
    /\ call.range.start.column > 0
    /\ before[call.range.start.line + 1].content[1] >= 128
    /\ Len(lines) < Len(before)

\* C4: a removal on one line with start_column < end_column <= line length
\* removes exactly the code points at columns [start_column, end_column) of
\* that line; the other lines and the line count stay.
C4_SingleLineRemovalExclusiveEnd ==
    LET range == call.range
        sl == range.start.line
    IN  (/\ call.kind \in {"remove_range", "content_change"}
         /\ sl = range.end.line
         /\ sl < Len(before)
         /\ range.start.column < range.end.column
         /\ range.end.column <= Len(LineChars(before, sl))) =>
            /\ call.result = "ok"
            /\ Len(mid) = Len(before)
            /\ \A i \in 1..Len(before) : i # sl + 1 => mid[i] = before[i]
            /\ chars(mid[sl + 1].content) =
                   Replaced(LineChars(before, sl), range.start.column,
                            range.end.column, <<>>)
            /\ Len(chars(mid[sl + 1].content)) =
                   Len(LineChars(before, sl)) - (range.end.column - range.start.column)

\* C4 witness: one multi-byte character was removed in front of another
\* character of the same line
W4_SingleLineRemoval ==
    /\ call.kind = "remove_range" /\ call.result = "ok"
    /\ call.range.start.line = call.range.end.line
    /\ call.range.start.column = 0 /\ call.range.end.column = 1
    /\ Len(LineChars(before, call.range.start.line)) = 2
    /\ before[call.range.start.line + 1].content[1] >= 128

\* C5: insert_at_position(p, text) with non-empty text replaces line p.line by
\* the lines of (first p.column code points) + text + (rest of the line), all
\* marked Edited; the line count grows by the number of line breaks of text;
\* the lines before and after keep content, order and status.
C5_InsertSplicesEditedLines ==
    (Inserted /\ call.text # <<>>) =>
        LET p == call.range.start
            old == chars(mid[p.line + 1].content)
            grown == NewlinesIn(call.text)
            made == SubSeq(lines, p.line + 1, p.line + 1 + grown)
        IN  /\ Len(lines) = Len(mid) + grown
            /\ \A i \in 1..p.line : lines[i] = mid[i]
            /\ \A i \in (p.line + 2)..Len(mid) : lines[i + grown] = mid[i]
            /\ \A i \in 1..Len(made) :
                   /\ made[i].line_status = "Edited"
                   /\ NewlinesIn(made[i].content) = 0
            /\ join(Contents_of(made), <<NL>>) =
                   collect_String(Replaced(old, p.column, p.column, chars(call.text)))

\* C5 witness: a text with a line break was inserted inside a line, between
\* other lines
W5_InsertWithLineBreak ==
    /\ Inserted /\ call.kind = "insert_at_position"
    /\ NewlinesIn(call.text) = 1
    /\ call.range.start.line > 0
    /\ Len(lines) = Len(before) + 1
    /\ Len(before) > call.range.start.line

\* C6: content_change with a degenerate range and empty text leaves the buffer
\* as it was, and so does remove_range with start_column = end_column on one
\* line.
C6_DegenerateEmptyEditIsNoOp ==
    /\ (call.kind = "content_change" /\ Degenerate(call.range) /\ call.text = <<>>) =>
           (call.result = "ok" /\ lines = before)
    /\ (call.kind \in {"remove_range", "content_change"} /\ Degenerate(call.range)) =>
           mid = before

\* C6 witness: a degenerate empty edit at the start of a non-empty line
W6_DegenerateEdit ==
    /\ call.kind = "content_change" /\ call.text = <<>>
    /\ call.range = NoRange
    /\ before[1].content # <<>>

\* C7: every line of a new buffer is Unedited; the removal phase changes no
\* status of a line it leaves in the buffer; the insertion phase marks Edited
\* the lines it makes and changes no other status.  So a line is Edited only
\* through an insertion, and no Edited line turns Unedited.
C7_LineStatus ==
    /\ call.kind = "new" => \A i \in 1..Len(lines) : lines[i].line_status = "Unedited"
    /\ call.kind \in {"remove_range", "content_change"} =>
           LET sl == call.range.start.line
               gone == Len(before) - Len(mid)
           IN  /\ gone >= 0
               /\ gone > 0 => sl < Len(mid)
               /\ \A i \in 1..Len(mid) :
                      mid[i].line_status =
                          before[IF gone > 0 /\ i > sl + 1 THEN i + gone ELSE i].line_status
    /\ call.kind \in {"insert_at_position", "content_change"} =>
           LET l == call.range.start.line
               grown == Len(lines) - Len(mid)
           IN  IF call.result = "ok" /\ call.text # <<>>
               THEN /\ grown >= 0
                    /\ \A i \in 1..l : lines[i].line_status = mid[i].line_status
                    /\ \A i \in (l + 1)..(l + 1 + grown) : lines[i].line_status = "Edited"
                    /\ \A i \in (l + 2)..Len(mid) :
                           lines[i + grown].line_status = mid[i].line_status
               ELSE Statuses_of(lines) = Statuses_of(mid)

\* C7 witness: a cross-line removal on a buffer holding an Edited line ahead
\* of the range left that line Edited and the merged line Unedited
W7_StatusKept ==
    /\ call.kind = "content_change" /\ call.result = "ok" /\ call.text = <<>>
    /\ call.range.start.line = 1 /\ call.range.end.line = 2
    /\ before[1].line_status = "Edited"
    /\ before[2].line_status = "Unedited"
    /\ lines[1].line_status = "Edited"
    /\ lines[2].line_status = "Unedited"

\* C8: a content_change that fails leaves the buffer exactly as it was before
\* the call.
C8_FailedEditChangesNothing ==
    (call.kind = "content_change" /\ call.result = "panic") => lines = before

\* C9: every content_change whose range names a line at or beyond the line
\* count, or a column beyond the length of its line, ends in a failure.
C9_OutOfBoundsEditFails ==
    (/\ call.kind = "content_change"
     /\ ~ (InBuffer(before, call.range.start) /\ InBuffer(before, call.range.end))) =>
        call.result = "panic"

\* C10: after every content_change, window_snippets holds the sliding windows
\* of the buffer's current filtered lines (whatever lines the parser left out).
C10_WindowSnippetsRebuilt ==
    (call.kind = "content_change" /\ call.result = "ok") =>
        \E parse \in Parses :
            window_snippets =
                snippets_using_sliding_window(
                    filtered_lines(lines, exlcuded_lines_import(parse[1], parse[2]), 0))

(***************************************************************************)
(* Folding                                                                 *)
(***************************************************************************)

Folded == applied.op = "applied" /\ applied.fn \in {"fold_function_blocks",
                                "fold_class_information", "fold_type_information"}
Retained == {applied.output[i] : i \in 1..Len(applied.output)}
\* a's range and b's share bytes and neither lies inside the other
PartialOverlap(a, b) ==
    /\ start_byte(a) <= end_byte(b) /\ start_byte(b) <= end_byte(a)
    /\ ~ contains(a, b) /\ ~ contains(b, a)
\* input record j lies inside input record i: record i stands for both when
\* the ranges are the same and i comes first
InsideOf(x, j, i) ==
    /\ i # j /\ contains(x[i].range, x[j].range)
    /\ (x[i].range = x[j].range => i < j)
\* the retained records are exactly those not inside another retained one,
\* each once, and no retained range lies inside another
RetainedExactly(x) ==
    /\ \A i \in 1..Len(x) :
          x[i] \in Retained <=>
             ~ \E q \in Retained : q # x[i] /\ contains(q.range, x[i].range)
    /\ Retained \subseteq {x[i] : i \in 1..Len(x)}
    /\ Cardinality(Retained) = Len(applied.output)
    /\ \A p, q \in Retained : p # q => ~ contains(p.range, q.range)

C12_FoldIdempotent ==
    /\ (applied.op = "again") => applied.output = Fold(applied.fn, applied.input)
    /\ Folded =>
          LET x == applied.input
          IN  ((\A i \in 1..(Len(x) - 1) :
                     start_byte(x[i].range) <= start_byte(x[i + 1].range))
               /\ (\A i, j \in 1..Len(x) :
                     i # j => ~ contains(x[i].range, x[j].range)))
              => applied.output = x

\* A list that lost a record in the first fold was folded a second time.
W12_FoldedTwice ==
    /\ applied.op = "again"
    /\ Len(applied.output) = 2 /\ Len(applied.input) = 3

(***************************************************************************)
(* Documentation comments                                                  *)
(***************************************************************************)

Concatenated == applied.op = "applied" /\ applied.fn = "concat_documentation_string"
\* s holds the entries of x, each as often as x does
SameEntries(s, x) ==
    /\ Len(s) = Len(x)
    /\ \A i \in 1..Len(x) :
          Cardinality({j \in 1..Len(x) : x[j] = x[i]})
             = Cardinality({j \in 1..Len(s) : s[j] = x[i]})
\* the entries of s where a run starts: the first one and each one that does
\* not start on the line after the end of its predecessor
RunStarts(s) ==
    {i \in 1..Len(s) : i = 1 \/ end_line(s[i - 1][1]) + 1 # start_line(s[i][1])}
\* the last entry of the run that starts at b
RunEnd(s, b) ==
    CHOOSE e \in b..Len(s) :
        /\ \A i \in (b + 1)..e : i \notin RunStarts(s)
        /\ e = Len(s) \/ (e + 1) \in RunStarts(s)
\* out is s with each run made one entry
RunsMerged(s, out) ==
    /\ Len(out) = Cardinality(RunStarts(s))
    /\ \A b \in RunStarts(s) :
          LET k == Cardinality({c \in RunStarts(s) : c <= b})
              e == RunEnd(s, b)
          IN  /\ out[k][1] = Range_new(start_position(s[b][1]), end_position(s[e][1]))
              /\ out[k][2] = join([i \in 1..(e - b + 1) |-> s[b + i - 1][2]], <<NL>>)

\* C13: concat_documentation_string orders the entries by start byte and makes
\* one entry of each longest run of entries that each start on the line after
\* the one before ends: texts joined by line breaks, range from the first start
\* to the last end.  Comments on lines 0, 1, 4-6, 7 give two entries, on lines
\* 0-1 and 4-7.  No output entry starts on the line after the one before ends.
C13_ConsecutiveCommentsConcatenated ==
    Concatenated =>
        LET x == applied.input
            out == applied.output
            s == sort_documentation_entries(x)
        IN  /\ SameEntries(s, x)
            /\ \A i \in 1..(Len(s) - 1) : start_byte(s[i][1]) <= start_byte(s[i + 1][1])
            /\ RunsMerged(s, out)
            /\ \A k \in 1..(Len(out) - 1) :
                  end_line(out[k][1]) + 1 # start_line(out[k + 1][1])
            /\ x = TestDocumentationStrings =>
                  /\ Len(out) = 2
                  /\ start_line(out[1][1]) = 0 /\ end_line(out[1][1]) = 1
                  /\ start_line(out[2][1]) = 4 /\ end_line(out[2][1]) = 7

\* Comments given out of order were put in order, two of them made one entry
\* and a third one kept apart.
W13_RunMergedOutOfOrder ==
    /\ Concatenated
    /\ Len(applied.input) = 3 /\ Len(applied.output) = 2
    /\ start_byte(applied.input[1][1]) > start_byte(applied.input[3][1])
Documented ==
    /\ applied.op = "applied"
    /\ applied.fn \in {"add_documentation_to_functions", "add_documentation_to_classes",
                       "add_documentation_to_types"}
\* the documentation a record holds: <<>> or <<text>>
DocumentationOf(block) ==
    IF applied.fn = "add_documentation_to_functions"
    THEN IF block.node_information = <<>> THEN <<>>
         ELSE block.node_information[1].documentation
    ELSE block.documentation

\* C14: a concatenated documentation entry is attached to a record exactly
\* when it ends on the line before the record starts, and the record's range
\* then starts where the entry starts; without such an entry, and always for a
\* record that starts on line 0, the record is left as it was.
C14_DocumentationFromLineAbove ==
    Documented =>
        LET block == applied.input.blocks[1]
            result == applied.output[1]
            entries == concat_documentation_string(applied.input.documentation_entries)
            Above(e) == /\ start_line(block.range) # 0
                        /\ end_line(e[1]) = start_line(block.range) - 1
            Attached(e) == /\ DocumentationOf(result) = <<e[2]>>
                           /\ start_position(result.range) = start_position(e[1])
        IN  /\ Len(applied.output) = 1
            /\ end_position(result.range) = end_position(block.range)
            /\ \A i \in 1..Len(entries) : Attached(entries[i]) <=> Above(entries[i])
            /\ (\A i \in 1..Len(entries) : ~ Above(entries[i])) => result = block
            /\ start_line(block.range) = 0 => result = block

(***************************************************************************)
(* Identifiers, enclosing function, expanded selection                     *)
(***************************************************************************)

\* the identifier nodes a function record holds
VariablesOf(block) ==
    IF block.node_information = <<>> THEN {}
    ELSE {block.node_information[1].variables[i] :
             i \in 1..Len(block.node_information[1].variables)}

\* C15: on folded function records, add_identifier_nodes gives each identifier
\* node to exactly the records whose range contains the node's range, and to
\* at most one record.
C15_IdentifierInContainingRecord ==
    (applied.op = "applied" /\ applied.fn = "add_identifier_nodes") =>
        LET blocks == applied.input.function_blocks
            ids == applied.input.identifier_nodes
            out == applied.output
        IN  /\ Len(out) = Len(blocks)
            /\ \A i \in 1..Len(ids) :
                  /\ \A k \in 1..Len(blocks) :
                        ids[i] \in VariablesOf(out[k])
                           <=> contains(blocks[k].range, ids[i][2])
                  /\ Cardinality({k \in 1..Len(out) : ids[i] \in VariablesOf(out[k])}) <= 1

Found == applied.op = "applied" /\ applied.fn = "find_function_in_byte_offset"
\* the blocks the byte offset lies in
Enclosing(blocks, offset) ==
    {b \in {blocks[i] : i \in 1..Len(blocks)} :
        start_byte(b.range) <= offset /\ offset <= end_byte(b.range)}
\* those of them that start last
StartingLast(blocks, offset) ==
    {b \in Enclosing(blocks, offset) :
        \A c \in Enclosing(blocks, offset) : start_byte(c.range) <= start_byte(b.range)}

\* C16: on records in start-byte order, find_function_in_byte_offset returns
\* a record the offset lies in whenever there is one, one that starts last
\* among them, and nothing exactly when the offset lies in no record.
C16_FindsEnclosingStartingLast ==
    Found =>
        LET blocks == applied.input.function_blocks
            offset == applied.input.byte_offset
        IN  /\ (applied.output = <<>>) <=> (Enclosing(blocks, offset) = {})
            /\ applied.output # <<>> => applied.output[1] \in StartingLast(blocks, offset)

\* The offset lies in two records, one inside the other: the inner one is found.
W16_InnerOfNested ==
    /\ Found
    /\ Cardinality(Enclosing(applied.input.function_blocks, applied.input.byte_offset)) = 2
    /\ applied.output # <<>>
    /\ \E b \in Enclosing(applied.input.function_blocks, applied.input.byte_offset) :
          /\ b # applied.output[1]
          /\ contains(b.range, applied.output[1].range)
          /\ start_byte(b.range) < start_byte(applied.output[1].range)

Expanded == applied.op = "applied" /\ applied.fn = "get_expanded_selection_range"
\* the least and the greatest of a set of numbers
Least(S) == CHOOSE x \in S : \A y \in S : x <= y
Greatest(S) == CHOOSE x \in S : \A y \in S : y <= x

\* C17: the expanded selection starts at the least of the selection's start
\* and the starts of the function enclosing its start offset and of the one
\* enclosing its end offset (for each offset, an enclosing record that starts
\* last), and ends at the greatest of the selection's end and their ends; it
\* contains the selection, and is the selection when neither offset lies in a
\* function.
C17_SelectionExpandedToEnclosing ==
    Expanded =>
        LET blocks == applied.input.function_bodies
            selection == applied.input.selection_range
            result == applied.output
            AtStart == StartingLast(blocks, start_byte(selection))
            AtEnd == StartingLast(blocks, end_byte(selection))
            Choices(S) == IF S = {} THEN {{}} ELSE {{b} : b \in S}
        IN  /\ \E fs \in Choices(AtStart), fe \in Choices(AtEnd) :
                  /\ start_byte(result) =
                        Least({start_byte(selection)}
                              \cup {start_byte(b.range) : b \in fs \cup fe})
                  /\ end_byte(result) =
                        Greatest({end_byte(selection)}
                                 \cup {end_byte(b.range) : b \in fs \cup fe})
            /\ result.start = PositionAt(start_byte(result))
            /\ result.end = PositionAt(end_byte(result))
            /\ contains(result, selection)
            /\ (AtStart = {} /\ AtEnd = {}) => result = selection

\* A selection from inside one function to inside another grew at both ends.
W17_ExpandedAcrossTwoFunctions ==
    /\ Expanded
    /\ start_byte(applied.output) < start_byte(applied.input.selection_range)
    /\ end_byte(applied.output) > end_byte(applied.input.selection_range)
    /\ find_function_in_byte_offset(applied.input.function_bodies,
                                    start_byte(applied.input.selection_range))
          # find_function_in_byte_offset(applied.input.function_bodies,
                                         end_byte(applied.input.selection_range))

(***************************************************************************)
(* Snippets                                                                *)
(***************************************************************************)

\* merge_snippets was applied to an earlier snippet and a later one that
\* share lines or follow one another without a gap, as coelace_snippets
\* applies it (shared lines) or could (no gap)
MergedPair ==
    /\ applied.op = "applied" /\ applied.fn = "merge_snippets"
    /\ applied.input.self.start_line <= applied.input.after.start_line
    /\ applied.input.after.start_line <= applied.input.self.end_line + 1
LinesOf(snippet) == snippet.start_line..snippet.end_line
\* the snippet spans the lines of a and b: one line per line number of either
IsUnion(snippet, a, b) ==
    /\ snippet.start_line = Min(a.start_line, b.start_line)
    /\ snippet.end_line = IF a.end_line >= b.end_line THEN a.end_line ELSE b.end_line
    /\ Len(snippet.snippet_lines) = snippet.end_line - snippet.start_line + 1
    /\ \A n \in LinesOf(a) \cup LinesOf(b) :
          /\ n \in DOMAIN numbered_lines(snippet)
          /\ numbered_lines(snippet)[n] \in
                {numbered_lines(c)[n] : c \in {d \in {a, b} : n \in LinesOf(d)}}

\* C18: merging two overlapping or adjacent snippets gives one snippet over
\* their union (smaller start, larger end, a line for every line number of
\* either), also when one lies inside the other; coelace_snippets gives that
\* snippet for two snippets that share a line.
C18_MergeSpansUnion ==
    /\ MergedPair =>
          /\ applied.output # <<>>
          /\ IsUnion(applied.output[1], applied.input.self, applied.input.after)
    /\ (applied.op = "applied" /\ applied.fn = "coelace_snippets"
           /\ Len(applied.input) = 2) =>
          LET sorted == sort_by_start_line(applied.input)
          IN  sorted[1].end_line >= sorted[2].start_line
                 => /\ applied.output # <<>>
                    /\ Len(applied.output[1]) = 1
                    /\ IsUnion(applied.output[1][1], sorted[1], sorted[2])

\* C19: a line number both merged snippets define carries the content of the
\* second (later-sorted) snippet in the merged snippet.
C19_SecondSnippetWins ==
    MergedPair =>
        /\ applied.output # <<>>
        /\ \A n \in LinesOf(applied.input.self) \cap LinesOf(applied.input.after) :
              /\ n \in DOMAIN numbered_lines(applied.output[1])
              /\ numbered_lines(applied.output[1])[n]
                    = numbered_lines(applied.input.after)[n]

\* Two snippets that share two lines were merged.
W19_SharedLines ==
    /\ MergedPair
    /\ Cardinality(LinesOf(applied.input.self) \cap LinesOf(applied.input.after)) = 2
    /\ applied.input.self.start_line < applied.input.after.start_line
    /\ numbered_lines(applied.input.self)[applied.input.after.start_line]
          # numbered_lines(applied.input.after)[applied.input.after.start_line]

(***************************************************************************)
(* Similar snippets                                                        *)
(***************************************************************************)

Grabbed == applied.op = "applied" /\ applied.fn = "grab_similar_context"
Cached == {window_snippets[i] : i \in 1..Len(window_snippets)}
Returned == {applied.output[j] : j \in 1..Len(applied.output)}
\* For each window of the cache, |A \cap B| and |A \cup B| of its tokens A and
\* the tokens B of the context
Scores ==
    LET context_words == BagOfWords_words(str_lines(applied.input))
    IN  {LET words == BagOfWords_words(w.snippet_lines)
         IN  [snippet |-> w,
              shared |-> Cardinality(words \cap context_words),
              joint |-> Cardinality(words \cup context_words)] : w \in Cached}
\* the Jaccard score is above 0.3
Above(t) == t.joint > 0 /\ 10 * t.shared > 3 * t.joint
\* the Jaccard score of a is strictly higher than that of b
ScoresHigher(a, b) ==
    a.joint > 0 /\ (b.joint = 0 \/ a.shared * b.joint > b.shared * a.joint)

\* C20: grab_similar_context returns at most 10 snippets of the cache, each
\* with a Jaccard score against the tokens of the context above 0.3, none
\* before one that scores higher, and no window left out scores higher than
\* one returned.
C20_BestTenAboveThreshold ==
    Grabbed =>
        LET scores == Scores
            returned == {t \in scores : t.snippet \in Returned}
            at(j) == CHOOSE t \in scores : t.snippet = applied.output[j]
        IN  /\ Len(applied.output) <= 10
            /\ Returned \subseteq Cached
            /\ Cardinality(Returned) = Len(applied.output)
            /\ \A t \in returned : Above(t)
            /\ \A j \in 1..(Len(applied.output) - 1) : ~ ScoresHigher(at(j + 1), at(j))
            /\ \A w \in scores \ returned : \A t \in returned : ~ ScoresHigher(w, t)

\* Eleven windows score above 0.3; ten are returned, the one left out is not
\* the last of the cache, and the first returned scores higher than the last.
W20_EleventhLeftOut ==
    /\ Grabbed
    /\ Len(applied.output) = 10
    /\ window_snippets[Len(window_snippets)] \in Returned
    /\ LET scores == Scores
       IN  /\ Cardinality({t \in scores : Above(t)}) = 11
           /\ \E a, b \in scores : /\ a.snippet = applied.output[1]
                                   /\ b.snippet = applied.output[10]
                                   /\ ScoresHigher(a, b)

(***************************************************************************)
(* Tokens and scores                                                       *)
(***************************************************************************)

Scored == applied.op = "applied" /\ applied.fn = "jaccard_score"
Tokenized == applied.op = "applied" /\ applied.fn = "tokenize_call"

\* The f32 score equals the number n (0 or 1); NaN equals no number
ScoreIs(score, n) ==
    score.union_size > 0 /\ score.intersection_size = n * score.union_size

\* C21: for any two token sets A and B, jaccard_score is the quotient of
\* |A intersect B| and |A| + |B| - |A intersect B|, lies in [0,1], is 1 exactly
\* when A and B are equal and non-empty, is 0 exactly when A and B are
\* disjoint, and is 0 when both sets are empty.
C21_JaccardScore ==
    Scored =>
        LET A == applied.input.self
            B == applied.input.other
            score == applied.output
        IN  /\ score.intersection_size = Cardinality(A \cap B)
            /\ score.union_size = Cardinality(A) + Cardinality(B) - Cardinality(A \cap B)
            /\ score.union_size > 0
            /\ 0 <= score.intersection_size
            /\ score.intersection_size <= score.union_size
            /\ ScoreIs(score, 1) <=> (A = B /\ A # {})
            /\ ScoreIs(score, 0) <=> (A \cap B = {})
            /\ (A = {} /\ B = {}) => ScoreIs(score, 0)

\* The runs of bytes of the class in the text that no byte of the class
\* precedes or follows, as pairs of first and last index
Runs(text, class) ==
    {r \in (1..Len(text)) \X (1..Len(text)) :
        /\ r[1] <= r[2]
        /\ \A k \in r[1]..r[2] : text[k] \in class
        /\ r[1] = 1 \/ text[r[1] - 1] \notin class
        /\ r[2] = Len(text) \/ text[r[2] + 1] \notin class}

\* The words of a text: its runs of letters, digits and underscores
WordsOf(text) == {SubSeq(text, r[1], r[2]) : r \in Runs(text, Word)}

\* The parts of a word between its underscores
UnderscoreParts(word) == {SubSeq(word, r[1], r[2]) : r \in Runs(word, Word \ {95})}

\* The case-transition parts of a word: each run of lowercase letters with
\* the uppercase letter before it, and each run of uppercase letters up to
\* the end of the word or else without its last letter
CaseParts(word) ==
    {SubSeq(word, IF r[1] > 1 /\ word[r[1] - 1] \in Upper THEN r[1] - 1 ELSE r[1], r[2]) :
        r \in Runs(word, Lower)}
    \cup {SubSeq(word, r[1], IF r[2] = Len(word) THEN r[2] ELSE r[2] - 1) :
            r \in Runs(word, Upper)}

\* What a word contributes to the tokens
Contribution(word) ==
    {t \in (IF \E k \in 1..Len(word) : word[k] = 95 THEN UnderscoreParts(word)
            ELSE IF \E k \in 1..Len(word) : word[k] \in Upper THEN CaseParts(word)
            ELSE {word}) : Len(t) > 1}

Windowed == applied.op = "applied" /\ applied.fn = "snippets_using_sliding_window"

\* The window holds the lines of the list from its start_line to its end_line
HoldsLinesOf(window, ls) ==
    /\ Len(window.snippet_lines) = window.end_line - window.start_line + 1
    /\ \A j \in 1..Len(window.snippet_lines) :
          /\ window.start_line + j - 1 \in 1..Len(ls)
          /\ window.snippet_lines[j] = ls[window.start_line + j - 1]

\* C22: of n filtered lines, n <= 50, snippets_using_sliding_window makes
\* exactly one window, holding all n lines, with start_line 1 and end_line n;
\* of n > 50 lines it makes one window of exactly 50 consecutive lines for
\* each start line from the first line through line n - 50, each window one
\* line after the one before it, with a 1-indexed start_line and
\* end_line = start_line + 49.
C22_SlidingWindows ==
    Windowed =>
        LET ls == applied.input
            n == Len(ls)
            windows == applied.output
        IN  /\ n <= WindowSize =>
                  /\ Len(windows) = 1
                  /\ windows[1].snippet_lines = ls
                  /\ windows[1].start_line = 1
                  /\ windows[1].end_line = n
            /\ n > WindowSize =>
                  /\ Len(windows) = n - WindowSize
                  /\ {windows[k].start_line : k \in 1..Len(windows)} = 1..(n - WindowSize)
                  /\ \A k \in 1..Len(windows) :
                        /\ windows[k].end_line = windows[k].start_line + WindowSize - 1
                        /\ Len(windows[k].snippet_lines) = WindowSize
                        /\ HoldsLinesOf(windows[k], ls)
                  /\ \A k \in 1..(Len(windows) - 1) :
                        windows[k + 1].start_line = windows[k].start_line + 1

\* C22 witness: a list of WindowSize + 2 lines made two windows
W22_TwoWindows ==
    /\ Windowed
    /\ Len(applied.input) = WindowSize + 2
    /\ Len(applied.output) = 2

\* C27: every line given to snippets_using_sliding_window is in at least one
\* of the windows it makes, for every number of lines, also above 50, and
\* every window holds exactly end_line - start_line + 1 lines.
C27_EveryLineInAWindow ==
    Windowed =>
        LET ls == applied.input
            windows == applied.output
        IN  /\ \A k \in 1..Len(windows) :
                  Len(windows[k].snippet_lines) =
                      windows[k].end_line - windows[k].start_line + 1
            /\ \A line \in 1..Len(ls) :
                  \E k \in 1..Len(windows) :
                      /\ windows[k].start_line <= line
                      /\ line <= windows[k].end_line
                      /\ HoldsLinesOf(windows[k], ls)

(***************************************************************************)
(* Outline nodes                                                           *)
(***************************************************************************)

Outlined == applied.op = "applied" /\ applied.fn = "get_outline"

RECURSIVE JoinedByNewlines(_)
\* The contents of the children, a line break between each two
JoinedByNewlines(children) ==
    IF Len(children) = 0 THEN <<>>
    ELSE IF Len(children) = 1 THEN children[1].content
    ELSE children[1].content \o <<NL>> \o JoinedByNewlines(Tail(children))

\* C24: get_outline returns the raw content of a class node without children
\* as it is; for a class node with children it returns "impl <name> {", a
\* line break, the contents of the children joined by line breaks, a line
\* break and "}" when the language is "rust", and nothing for any other
\* language; for every node that is not a class node it returns nothing.
C24_OutlineOfClassNodes ==
    Outlined =>
        LET node == applied.input
            outline == applied.output
        IN  IF node.content.type # "Class" THEN outline = <<>>
            ELSE IF Len(node.children) = 0 THEN outline = <<node.content.content>>
            ELSE IF node.language # "rust" THEN outline = <<>>
            ELSE outline = << <<105, 109, 112, 108, 32>> \o node.content.name
                              \o <<32, 123>> \o <<NL>>
                              \o JoinedByNewlines(node.children)
                              \o <<NL>> \o <<125>> >>

\* C24 witness: a rust class node with two children gave an impl block
W24_ImplOfTwoChildren ==
    /\ Outlined
    /\ applied.input.content.type = "Class"
    /\ applied.input.language = "rust"
    /\ Len(applied.input.children) = 2
    /\ applied.input.children[2].content # <<>>
    /\ applied.output # <<>>

(***************************************************************************)
(* Edits with valid ranges, and an insertion taken back                    *)
(***************************************************************************)

\* The range from line 0, column 0 to the end of the last line of ls
WholeRange(ls) ==
    Range_new(Position_new(0, 0),
              Position_new(Len(ls) - 1, Len(LineChars(ls, Len(ls) - 1))))

\* C25: after new and after any sequence of content_change calls with valid
\* ranges the buffer holds at least one line; removing the whole content,
\* from line 0 column 0 to the end of the last line, leaves exactly one empty
\* line, and get_content() is "".
C25_AtLeastOneLine ==
    /\ Len(lines) >= 1
    /\ (call.kind \in {"content_change", "remove_range"} /\ call.range = WholeRange(before)) =>
          /\ call.result = "ok"
          /\ mid = <<DocumentLine(mid[1].line_status, <<>>)>>
          /\ get_content(mid) = <<>>
          /\ call.text = <<>> => (Len(lines) = 1 /\ lines[1].content = <<>>
                                                 /\ get_content(lines) = <<>>)

\* C25 witness: the whole content of a buffer of two lines, the last one
\* ending in a multi-byte character, was removed by content_change
W25_WholeContentRemoved ==
    /\ call.kind = "content_change" /\ call.text = <<>>
    /\ Len(before) = 2
    /\ call.range = WholeRange(before)
    /\ Len(before[2].content) >= 4
    /\ Len(lines) = 1

\* C26: for any buffer, any position p inside it and any text t that is not
\* empty, content_change with the range (p, p) and t, followed by
\* content_change with the empty text over the range t then lies in, gives
\* get_content() and the number of lines the values they had before the two
\* edits.
C26_InsertionTakenBack ==
    (call.kind = "content_change" /\ call.text = <<>>) =>
        /\ call.result = "ok"
        /\ get_content(lines) = get_content(before)
        /\ Len(lines) = Len(before)

\* C26 witness: a text with a multi-byte character and a line break was
\* inserted inside a line and taken back
W26_LineBreakTakenBack ==
    /\ call.kind = "content_change" /\ call.text = <<>> /\ call.result = "ok"
    /\ call.range.start.column > 0
    /\ call.range.end.line = call.range.start.line + 1
    /\ Len(mid) = Len(before) + 1
    /\ get_content(lines) = get_content(before)

(***************************************************************************)
(* Coalesced snippets                                                      *)
(***************************************************************************)

Coelaced == applied.op = "applied" /\ applied.fn = "coelace_snippets"

\* The snippet holds end_line - start_line + 1 lines
HoldsItsLines(snippet) ==
    Len(snippet.snippet_lines) = snippet.end_line - snippet.start_line + 1

\* C28: when every snippet given holds end_line - start_line + 1 lines, the
\* snippets coelace_snippets returns are in ascending order of start_line,
\* the end_line of each is strictly below the start_line of the next, each
\* holds end_line - start_line + 1 lines, and no merge fails on a line number
\* that is missing.
C28_CoelacedOrderedDisjoint ==
    (Coelaced /\ \A k \in 1..Len(applied.input) : HoldsItsLines(applied.input[k])) =>
        /\ applied.output # <<>>
        /\ LET merged_snippets == applied.output[1]
           IN  /\ \A k \in 1..(Len(merged_snippets) - 1) :
                     /\ merged_snippets[k].start_line <= merged_snippets[k + 1].start_line
                     /\ merged_snippets[k].end_line < merged_snippets[k + 1].start_line
               /\ \A k \in 1..Len(merged_snippets) : HoldsItsLines(merged_snippets[k])

\* C28 witness: of three snippets given out of order, one inside another was
\* merged and the third was kept apart
W28_NestedMergedThirdApart ==
    /\ Coelaced
    /\ Len(applied.input) = 3
    /\ applied.input[1].start_line > applied.input[2].start_line
    /\ \E i, j \in 1..3 : /\ applied.input[i].start_line < applied.input[j].start_line
                          /\ applied.input[j].end_line < applied.input[i].end_line
    /\ applied.output # <<>>
    /\ Len(applied.output[1]) = 2

(***************************************************************************)
(* Documentation and range of a function record                            *)
(***************************************************************************)

\* C29: add_documentation_to_functions moves the start of a function record's
\* range up to the start of a documentation entry exactly when the text of
\* that entry is stored as the documentation of the record; a record on which
\* no documentation ends up stored, also one without node information, keeps
\* the range it had.
C29_RangeMovedWithDocumentation ==
    (Documented /\ applied.fn = "add_documentation_to_functions") =>
        LET block == applied.input.blocks[1]
            result == applied.output[1]
            entries == concat_documentation_string(applied.input.documentation_entries)
        IN  /\ (result.range # block.range) <=> (DocumentationOf(result) # <<>>)
            /\ DocumentationOf(result) # <<>> =>
                  \E i \in 1..Len(entries) :
                      /\ DocumentationOf(result) = <<entries[i][2]>>
                      /\ start_position(result.range) = start_position(entries[i][1])
                      /\ end_position(result.range) = end_position(block.range)
            /\ DocumentationOf(result) = <<>> => result.range = block.range

(***************************************************************************)
(* Expanding an expanded selection                                         *)
(***************************************************************************)

ExpandedAgain == applied.op = "again" /\ applied.fn = "get_expanded_selection_range"

\* No two records of the list share a byte
ShareNoByte(blocks) ==
    \A i, j \in 1..Len(blocks) :
        i < j => end_byte(blocks[i].range) < start_byte(blocks[j].range)

\* C30 as stated: for a folded function list in start-byte order,
\* get_expanded_selection_range applied to its own result returns that
\* result, for every selection.
C30_AsStated ==
    (ExpandedAgain /\ fold_function_blocks(applied.input.function_bodies)
                          = applied.input.function_bodies) =>
        applied.output.again = applied.output.expanded

\* C30, amended: for a function list in start-byte order in which no two
\* records share a byte, get_expanded_selection_range applied to its own
\* result returns that result, for every selection.
C30_ExpansionIdempotent ==
    (ExpandedAgain /\ ShareNoByte(applied.input.function_bodies)) =>
        applied.output.again = applied.output.expanded

\* C30 witness: a selection from inside one function to inside another one
\* was expanded over both and expanded again
W30_ExpandedTwice ==
    /\ ExpandedAgain
    /\ ShareNoByte(applied.input.function_bodies)
    /\ Len(applied.input.function_bodies) >= 2
    /\ start_byte(applied.output.expanded) < start_byte(applied.input.selection_range)
    /\ end_byte(applied.output.expanded) > end_byte(applied.input.selection_range)
    /\ \E i, j \in 1..Len(applied.input.function_bodies) :
          /\ i < j
          /\ start_byte(applied.output.expanded)
                = start_byte(applied.input.function_bodies[i].range)
          /\ end_byte(applied.output.expanded)
                = end_byte(applied.input.function_bodies[j].range)
    /\ applied.output.again = applied.output.expanded

====
